---- MODULE Spec2Model ----
(***************************************************************************)
(* sports-scribe ai-backend: the AgentPipeline orchestrator, its           *)
(* extraction helpers, and the data-source / data-collector layer.         *)
(*                                                                         *)
(* Python values are tagged records, so that values of different Python    *)
(* types can be compared and stored together:                              *)
(*   None, Bool(b), Num(i), Str(s), List(<<..>>), Dict([k |-> v]),         *)
(*   Model(name, d) for a pydantic object, and Raise(msg) for the          *)
(*   exception an expression raised instead of yielding a value; msg is    *)
(*   str(e).  JsonStr(v) is a str holding the JSON text of v, RawStr(s)    *)
(*   a str with surrounding whitespace around s.                           *)
(***************************************************************************)
EXTENDS Integers, Sequences, FiniteSets, TLC

VARIABLES self, run, ext, fetch, agent, svc

vars == <<self, run, ext, fetch, agent, svc>>

----------------------------------------------------------------------------
(* Python values *)

None == [t |-> "none"]
Bool(b) == [t |-> "bool", b |-> b]
Num(i) == [t |-> "int", i |-> i]
Str(s) == [t |-> "str", s |-> s]
List(l) == [t |-> "list", l |-> l]
Dict(d) == [t |-> "dict", d |-> d]
Model(name, d) == [t |-> "model", cls |-> name, d |-> d]
Raise(m) == [t |-> "raise", msg |-> m]
JsonStr(v) == [t |-> "jsonstr", v |-> v]
RawStr(s) == [t |-> "rawstr", s |-> s]

\* json.loads(x)
json_loads(x) ==
  CASE x.t = "jsonstr" -> x.v
    [] x.t \in {"str", "rawstr"} -> Raise("Expecting value: line 1 column 1 (char 0)")
    [] OTHER -> Raise("the JSON object must be str, bytes or bytearray")

\* x.strip()
PyStrip(x) ==
  CASE x.t = "rawstr" -> Str(x.s)
    [] x.t \in {"str", "jsonstr"} -> x
    [] OTHER -> Raise("object has no attribute 'strip'")

NoKeys == [k \in {} |-> None]
EmptyDict == Dict(NoKeys)
EmptyList == List(<<>>)

IsRaise(v) == v.t = "raise"
IsDict(v) == v.t = "dict"
IsList(v) == v.t = "list"

\* bool(v): None, False, 0, "", [] and {} are falsy
Truthy(v) ==
  CASE v.t = "none" -> FALSE
    [] v.t = "bool" -> v.b
    [] v.t = "int" -> v.i # 0
    [] v.t = "str" -> v.s # ""
    [] v.t = "raise" -> FALSE
    [] v.t = "list" -> Len(v.l) > 0
    [] v.t = "dict" -> DOMAIN v.d # {}
    [] v.t = "odict" -> Len(v.items) > 0
    [] OTHER -> TRUE

\* d.get(k, dflt): AttributeError unless d is a dict
PyGet(d, k, dflt) ==
  IF IsRaise(d) THEN d
  ELSE IF ~IsDict(d) THEN Raise("object has no attribute 'get'")
  ELSE IF k \in DOMAIN d.d THEN d.d[k] ELSE dflt

\* v[0]
PyFirst(v) ==
  CASE IsRaise(v) -> v
    [] v.t = "list" -> IF Len(v.l) > 0 THEN v.l[1] ELSE Raise("list index out of range")
    [] v.t = "str" -> IF v.s # "" THEN Str("c") ELSE Raise("string index out of range")
    [] v.t = "dict" -> Raise("0")
    [] OTHER -> Raise("object is not subscriptable")

\* the elements a for loop over v visits: a dict yields its keys, a str its characters
SetToSeq(S) ==
  LET RECURSIVE F(_)
      F(T) == IF T = {} THEN <<>>
              ELSE LET e == CHOOSE e \in T : TRUE IN <<e>> \o F(T \ {e})
  IN F(S)

PyIter(v) ==
  CASE IsRaise(v) -> v
    [] v.t = "list" -> v
    [] v.t = "dict" -> List([i \in 1..Cardinality(DOMAIN v.d) |-> Str(SetToSeq(DOMAIN v.d)[i])])
    [] v.t = "str" -> List([i \in 1..(IF v.s = "" THEN 0 ELSE 1) |-> Str("c")])
    [] OTHER -> Raise("object is not iterable")

\* the first exception among the values of a sequence, in evaluation order; None if none
FirstRaise(vs) ==
  LET idx == {i \in 1..Len(vs) : IsRaise(vs[i])}
  IN IF idx = {} THEN None
     ELSE vs[CHOOSE i \in idx : \A j \in idx : i <= j]

----------------------------------------------------------------------------
(* Insertion-ordered dicts keyed by arbitrary values (all_players,         *)
(* player_events): a sequence of items [k, v] in insertion order.          *)

ODict(items) == [t |-> "odict", items |-> items]
EmptyOD == ODict(<<>>)
ODIndex(od, k) == {i \in 1..Len(od.items) : od.items[i].k = k}
ODHas(od, k) == ODIndex(od, k) # {}
ODGet(od, k) == od.items[CHOOSE i \in ODIndex(od, k) : TRUE].v
\* od[k] = v: an existing key keeps its position
ODPut(od, k, v) ==
  IF ODHas(od, k)
  THEN ODict([i \in 1..Len(od.items) |->
                IF od.items[i].k = k THEN [k |-> k, v |-> v] ELSE od.items[i]])
  ELSE ODict(Append(od.items, [k |-> k, v |-> v]))
ODValues(od) == [i \in 1..Len(od.items) |-> od.items[i].v]
ODKeys(od) == [i \in 1..Len(od.items) |-> od.items[i].k]
\* {k: v for k, v in od.items() if P(v)}
ODFilter(od, P(_)) ==
  LET RECURSIVE F(_)
      F(its) == IF Len(its) = 0 THEN <<>>
                ELSE IF P(Head(its).v) THEN <<Head(its)>> \o F(Tail(its))
                ELSE F(Tail(its))
  IN ODict(F(od.items))

\* a dict key must be hashable
Hashable(v) == v.t \notin {"list", "dict", "odict"}

\* list(d.values()) for a dict or an ordered dict
PyValues(v) ==
  CASE v.t = "odict" -> ODValues(v)
    [] v.t = "dict" -> [i \in 1..Cardinality(DOMAIN v.d) |-> v.d[SetToSeq(DOMAIN v.d)[i]]]
    [] OTHER -> <<>>

\* "k" in v, for the containers the pipeline tests
PyHasKey(v, k) ==
  CASE v.t = "dict" -> k \in DOMAIN v.d
    [] v.t = "list" -> \E i \in 1..Len(v.l) : v.l[i] = Str(k)
    [] OTHER -> FALSE

----------------------------------------------------------------------------
(* Evaluation helpers: a value computed once and then named, and the for   *)
(* loop that stops at the first exception.                                 *)

\* F applied to the value of e
With(e, F(_)) == CHOOSE y \in {F(x) : x \in {e}} : TRUE

\* for x in xs: acc = body(x, acc); an exception raised by body ends the loop
RECURSIVE ForEach(_, _, _)
ForEach(body(_, _), xs, acc) ==
  IF Len(xs) = 0 \/ IsRaise(acc) THEN acc
  ELSE With(<<body(Head(xs), acc), Tail(xs)>>, LAMBDA a : ForEach(body, a[2], a[1]))

\* d[k] = x on a dict value
DictSet(dv, k, x) ==
  With(dv, LAMBDA d0 : Dict([kk \in DOMAIN d0.d \cup {k} |-> IF kk = k THEN x ELSE d0.d[kk]]))

----------------------------------------------------------------------------
(* AgentPipeline.extract_team_info                                         *)

\* the four fields read from teams.home / teams.away
team_fields(team) ==
  IF IsRaise(PyGet(team, "id", None)) THEN PyGet(team, "id", None)
  ELSE Dict([id |-> PyGet(team, "id", None), name |-> PyGet(team, "name", None),
             logo |-> PyGet(team, "logo", None), winner |-> PyGet(team, "winner", None)])

league_fields(league) ==
  IF IsRaise(PyGet(league, "id", None)) THEN PyGet(league, "id", None)
  ELSE Dict([id |-> PyGet(league, "id", None), name |-> PyGet(league, "name", None),
             country |-> PyGet(league, "country", None), logo |-> PyGet(league, "logo", None),
             flag |-> PyGet(league, "flag", None), season |-> PyGet(league, "season", None),
             round |-> PyGet(league, "round", None)])

\* the lineup summary built for a matching team
lineup_summary(lineup) ==
  LET coach == PyGet(PyGet(lineup, "coach", EmptyDict), "name", None)
  IN IF IsRaise(coach) THEN coach
     ELSE Dict([formation |-> PyGet(lineup, "formation", None), coach |-> coach,
                startXI |-> PyGet(lineup, "startXI", EmptyList),
                substitutes |-> PyGet(lineup, "substitutes", EmptyList)])

\* the body of the loop over lineups: acc holds the two team ids and the
\* home_lineup and away_lineup found so far
team_lineup_step(lineup, acc) ==
  LET team_id == PyGet(PyGet(lineup, "team", EmptyDict), "id", None)
  IN IF IsRaise(team_id) THEN team_id
     ELSE IF team_id = acc.home_id
     THEN With(lineup_summary(lineup),
               LAMBDA h : IF IsRaise(h) THEN h ELSE [acc EXCEPT !.home_lineup = h])
     ELSE IF team_id = acc.away_id
     THEN With(lineup_summary(lineup),
               LAMBDA a : IF IsRaise(a) THEN a ELSE [acc EXCEPT !.away_lineup = a])
     ELSE acc

NoResponseError == Dict([error |-> Str("No response data available")])

\* extract_team_info without its except block: the exception reaches the caller
TeamInfoUncaught(e) == e

TeamInfoError(e) == Dict([error |-> Str("Failed to extract team info: " \o e.msg)])

\* extract_team_info once response_list[0] is at hand
team_info_of(fixture_data) ==
  LET teams == PyGet(fixture_data, "teams", EmptyDict)
      home_team_info == team_fields(PyGet(teams, "home", EmptyDict))
      away_team_info == team_fields(PyGet(teams, "away", EmptyDict))
      league_info == league_fields(PyGet(fixture_data, "league", EmptyDict))
      lineups == PyIter(PyGet(fixture_data, "lineups", EmptyList))
  IN With(<<fixture_data, teams, home_team_info, away_team_info, league_info, lineups>>,
          LAMBDA v :
            IF IsRaise(FirstRaise(v)) THEN TeamInfoError(FirstRaise(v))
            ELSE With(ForEach(team_lineup_step, v[6].l,
                              [t |-> "acc", home_id |-> v[3].d.id, away_id |-> v[4].d.id,
                               home_lineup |-> None, away_lineup |-> None]),
                      LAMBDA both :
                        IF IsRaise(both) THEN TeamInfoError(both)
                        ELSE Dict([home_team |-> v[3], away_team |-> v[4], league |-> v[5],
                                   home_lineup |-> both.home_lineup,
                                   away_lineup |-> both.away_lineup])))

extract_team_info(raw_game_data) ==
  With(PyGet(raw_game_data, "response", EmptyList),
       LAMBDA response_list :
         IF IsRaise(response_list) THEN TeamInfoError(response_list)
         ELSE IF ~Truthy(response_list) THEN NoResponseError
         ELSE With(PyFirst(response_list), team_info_of))

----------------------------------------------------------------------------
(* AgentPipeline.extract_player_info and _identify_key_players             *)

\* the entry appended to player_events[player_id]["events"]
event_entry(event) ==
  LET time == PyGet(PyGet(event, "time", EmptyDict), "elapsed", None)
      assist == IF Truthy(PyGet(event, "assist", None))
                THEN PyGet(PyGet(event, "assist", EmptyDict), "name", None)
                ELSE None
      exc == FirstRaise(<<time, assist>>)
  IN IF IsRaise(exc) THEN exc
     ELSE Dict([type |-> PyGet(event, "type", None), detail |-> PyGet(event, "detail", None),
                time |-> time, assist |-> assist])

\* the loop body without the test of the player's name
player_events_step_unnamed(event, pe) ==
  LET player == PyGet(event, "player", EmptyDict)
      player_id == PyGet(player, "id", None)
      exc == FirstRaise(<<player, player_id>>)
  IN IF IsRaise(exc) THEN exc
     ELSE IF ~Truthy(player_id) THEN pe
     ELSE IF ~Hashable(player_id) THEN Raise("unhashable type")
     ELSE LET entry == IF ODHas(pe, player_id) THEN ODGet(pe, player_id)
                       ELSE Dict([id |-> player_id, events |-> EmptyList])
          IN With(<<entry, event_entry(event)>>,
                  LAMBDA v :
                    IF IsRaise(FirstRaise(v)) THEN FirstRaise(v)
                    ELSE ODPut(pe, player_id,
                               DictSet(v[1], "events", List(Append(v[1].d.events.l, v[2])))))

\* the body of the loop over events that fills player_events
player_events_step(event, pe) ==
  LET player == PyGet(event, "player", EmptyDict)
      player_id == PyGet(player, "id", None)
      player_name == PyGet(player, "name", None)
      exc == FirstRaise(<<player, player_id, player_name>>)
  IN IF IsRaise(exc) THEN exc
     ELSE IF ~(Truthy(player_id) /\ Truthy(player_name)) THEN pe
     ELSE IF ~Hashable(player_id) THEN Raise("unhashable type")
     ELSE LET team_name == PyGet(PyGet(event, "team", EmptyDict), "name", None)
              team_id == PyGet(PyGet(event, "team", EmptyDict), "id", None)
              entry == IF ODHas(pe, player_id) THEN ODGet(pe, player_id)
                       ELSE IF IsRaise(team_name) THEN team_name
                       ELSE Dict([id |-> player_id, name |-> player_name,
                                  team |-> team_name, team_id |-> team_id,
                                  events |-> EmptyList])
          IN With(<<entry, event_entry(event)>>,
                  LAMBDA v :
                    IF IsRaise(FirstRaise(v)) THEN FirstRaise(v)
                    ELSE ODPut(pe, player_id,
                               DictSet(v[1], "events", List(Append(v[1].d.events.l, v[2])))))

\* the body of the two roster loops (startXI, substitutes) of a lineup: team
\* holds the lineup's team name and id and the status the loop assigns
roster_step(team, player_data, ap) ==
  LET player == PyGet(player_data, "player", EmptyDict)
      player_id == PyGet(player, "id", None)
  IN IF IsRaise(player_id) THEN player_id
     ELSE IF ~Truthy(player_id) THEN ap
     ELSE IF ~Hashable(player_id) THEN Raise("unhashable type")
     ELSE ODPut(ap, player_id,
                Dict([id |-> player_id, name |-> PyGet(player, "name", None),
                      number |-> PyGet(player, "number", None),
                      position |-> PyGet(player, "pos", None),
                      team |-> team.name, team_id |-> team.id,
                      status |-> Str(team.status),
                      formation_position |->
                        IF team.status = "started" THEN PyGet(player, "grid", None)
                        ELSE None]))

\* the body of the loop over lineups that fills all_players
all_players_step(lineup, ap) ==
  LET team_name == PyGet(PyGet(lineup, "team", EmptyDict), "name", None)
      team_id == PyGet(PyGet(lineup, "team", EmptyDict), "id", None)
      startXI == PyIter(PyGet(lineup, "startXI", EmptyList))
  IN With(<<team_name, team_id, startXI>>,
          LAMBDA v :
            IF IsRaise(FirstRaise(v)) THEN FirstRaise(v)
            ELSE With(ForEach(LAMBDA pd, acc :
                                roster_step([name |-> v[1], id |-> v[2], status |-> "started"],
                                            pd, acc),
                              v[3].l, ap),
                      LAMBDA ap1 :
                        IF IsRaise(ap1) THEN ap1
                        ELSE With(PyIter(PyGet(lineup, "substitutes", EmptyList)),
                                  LAMBDA subs :
                                    IF IsRaise(subs) THEN subs
                                    ELSE ForEach(LAMBDA pd, acc :
                                                   roster_step([name |-> v[1], id |-> v[2],
                                                                status |-> "substitute"],
                                                               pd, acc),
                                                 subs.l, ap1))))

\* the loop that attaches match_events to every player
merge_events(ap, pe) ==
  ODict([i \in 1..Len(ap.items) |->
           [k |-> ap.items[i].k,
            v |-> DictSet(ap.items[i].v, "match_events",
                          IF ODHas(pe, ap.items[i].k)
                          THEN ODGet(pe, ap.items[i].k).d.events
                          ELSE EmptyList)]])

\* the loop body without the test of the event's type: a substitution makes a
\* key player too
key_player_step_any_type(event, acc) ==
  LET player_id == PyGet(PyGet(event, "player", EmptyDict), "id", None)
      time == PyGet(PyGet(event, "time", EmptyDict), "elapsed", None)
  IN IF IsRaise(player_id) THEN player_id
     ELSE IF ~Truthy(player_id) THEN acc
     ELSE IF ~Hashable(player_id) THEN Raise("unhashable type")
     ELSE IF ~ODHas(acc.all_players, player_id) THEN acc
     ELSE IF IsRaise(time) THEN time
     ELSE [acc EXCEPT !.key_players =
             Append(@, DictSet(ODGet(acc.all_players, player_id), "key_achievement",
                               Dict([type |-> PyGet(event, "type", None),
                                     detail |-> PyGet(event, "detail", None),
                                     time |-> time])))]

\* the body of the loop of _identify_key_players: acc holds all_players and
\* the key_players appended so far
key_player_step(event, acc) ==
  LET type == PyGet(event, "type", None)
      player_id == PyGet(PyGet(event, "player", EmptyDict), "id", None)
      time == PyGet(PyGet(event, "time", EmptyDict), "elapsed", None)
  IN IF IsRaise(type) THEN type
     ELSE IF type \notin {Str("Goal"), Str("Card")} THEN acc
     ELSE IF IsRaise(player_id) THEN player_id
     ELSE IF ~Truthy(player_id) THEN acc
     ELSE IF ~Hashable(player_id) THEN Raise("unhashable type")
     ELSE IF ~ODHas(acc.all_players, player_id) THEN acc
     ELSE IF IsRaise(time) THEN time
     ELSE [acc EXCEPT !.key_players =
             Append(@, DictSet(ODGet(acc.all_players, player_id), "key_achievement",
                               Dict([type |-> type, detail |-> PyGet(event, "detail", None),
                                     time |-> time])))]

identify_key_players(all_players, events) ==
  With(ForEach(key_player_step, events,
               [t |-> "acc", all_players |-> all_players, key_players |-> <<>>]),
       LAMBDA acc : IF IsRaise(acc) THEN acc ELSE List(acc.key_players))

PlayerInfoError(e) == Dict([error |-> Str("Failed to extract player info: " \o e.msg)])

\* the players of one team: {pid: pdata for .. if pdata.get("team_id") == team_id}
players_of(all_players, team_id) ==
  ODFilter(all_players, LAMBDA p : PyGet(p, "team_id", None) = team_id)

\* extract_player_info from the merge loop on
player_info_of(fixture_data, events, all_players) ==
  LET teams == PyGet(fixture_data, "teams", EmptyDict)
      home_team_id == PyGet(PyGet(teams, "home", EmptyDict), "id", None)
      away_team_id == PyGet(PyGet(teams, "away", EmptyDict), "id", None)
  IN With(<<home_team_id, away_team_id,
            IF IsRaise(FirstRaise(<<home_team_id, away_team_id>>)) THEN None
            ELSE identify_key_players(all_players, events)>>,
          LAMBDA v :
            IF IsRaise(FirstRaise(v)) THEN PlayerInfoError(FirstRaise(v))
            ELSE Dict([home_players |-> players_of(all_players, v[1]),
                       away_players |-> players_of(all_players, v[2]),
                       all_players |-> all_players,
                       key_players |-> v[3]]))

\* extract_player_info once response_list[0] is at hand
player_info_from(fixture_data) ==
  With(PyIter(PyGet(fixture_data, "events", EmptyList)),
       LAMBDA events :
         IF IsRaise(events) THEN PlayerInfoError(events)
         ELSE With(ForEach(player_events_step, events.l, EmptyOD),
                   LAMBDA player_events :
                     IF IsRaise(player_events) THEN PlayerInfoError(player_events)
                     ELSE With(PyIter(PyGet(fixture_data, "lineups", EmptyList)),
                               LAMBDA lineups :
                                 IF IsRaise(lineups) THEN PlayerInfoError(lineups)
                                 ELSE With(ForEach(all_players_step, lineups.l, EmptyOD),
                                           LAMBDA ap :
                                             IF IsRaise(ap) THEN PlayerInfoError(ap)
                                             ELSE With(merge_events(ap, player_events),
                                                       LAMBDA all_players :
                                                         player_info_of(fixture_data, events.l,
                                                                        all_players))))))

extract_player_info(raw_game_data) ==
  With(PyGet(raw_game_data, "response", EmptyList),
       LAMBDA response_list :
         IF IsRaise(response_list) THEN PlayerInfoError(response_list)
         ELSE IF ~Truthy(response_list) THEN NoResponseError
         ELSE With(PyFirst(response_list), player_info_from))

----------------------------------------------------------------------------
(* DataCollectorAgent: each collect_* awaits Runner.run on the collector    *)
(* agent and parses its final output.  final_output is what the agent run  *)
(* produced, or Raise(..) when Runner.run raised.                          *)

IsPyStr(v) == v.t \in {"str", "jsonstr", "rawstr", "fstr"}

collect_game_data(final_output) ==
  IF IsRaise(final_output) THEN final_output
  ELSE IF ~Truthy(final_output) THEN Raise("No game data received from collector")
  ELSE IF IsPyStr(final_output) THEN json_loads(final_output)
  ELSE final_output

collect_team_data(final_output) ==
  IF IsRaise(final_output) THEN final_output
  ELSE IF ~Truthy(final_output) THEN Raise("No team data received from collector")
  ELSE IF IsPyStr(final_output) THEN json_loads(final_output)
  ELSE final_output

\* collect_player_data(self, player_id, season): args are the positional arguments of the call
collect_player_data(args, final_output) ==
  IF Len(args) # 2
  THEN Raise("collect_player_data() missing 1 required positional argument: 'season'")
  ELSE IF IsRaise(final_output) THEN final_output
  ELSE IF ~Truthy(final_output) THEN Raise("No player data received from collector")
  ELSE IF IsPyStr(final_output) THEN json_loads(final_output)
  ELSE final_output

----------------------------------------------------------------------------
(* ResearchAgent (scriber_agents/researcher.py)                            *)

FillerGameAnalysis ==
  Model("GameAnalysis",
        [fixture_summary |-> EmptyDict, key_events |-> EmptyList,
         storylines |-> List(<<Str("Exciting match with plenty of action"),
                               Str("Key players making the difference")>>),
         match_highlights |-> List(<<Str("Dramatic finish"),
                                     Str("Outstanding individual performances")>>)])

FillerStorylines ==
  List(<<Str("Exciting match with plenty of action"),
         Str("Key players making the difference"),
         Str("Tactical battle between managers")>>)

\* the whole of v, no slice taken
PySliceAll(v) ==
  IF v.t = "list" \/ IsPyStr(v) THEN v ELSE Raise("object is not subscriptable")

\* v[:5]
PySlice5(v) ==
  CASE v.t = "list" -> List(SubSeq(v.l, 1, IF Len(v.l) < 5 THEN Len(v.l) ELSE 5))
    [] IsPyStr(v) -> v
    [] OTHER -> Raise("object is not subscriptable")

\* analyze_game_data without its except block
analyze_game_data_unguarded(game_data, agent_outcome) == agent_outcome

\* agent_outcome: the final output of Runner.run(game_analysis_agent, ..), or Raise
analyze_game_data(game_data, agent_outcome) ==
  IF IsRaise(agent_outcome) THEN FillerGameAnalysis ELSE agent_outcome

\* generate_storylines without its except block
generate_storylines_unguarded(data_list, agent_outcome) ==
  IF IsRaise(agent_outcome) THEN agent_outcome ELSE PySlice5(agent_outcome)

\* agent_outcome: the final output of Runner.run(storyline_generation_agent, ..), or Raise
generate_storylines(data_list, agent_outcome) ==
  IF IsRaise(agent_outcome) THEN FillerStorylines
  ELSE IF IsRaise(PySlice5(agent_outcome)) THEN FillerStorylines
  ELSE PySlice5(agent_outcome)

\* The two research calls the pipeline makes that scriber_agents/researcher.py does
\* not define: a list of strings, the agent's or, when the agent call raised, filler.
get_history_from_team_data(team_data, agent_outcome) ==
  IF IsRaise(agent_outcome) THEN List(<<Str("Match analysis based on available game data")>>)
  ELSE agent_outcome

get_performance_from_player_game_data(player_data, game_data, agent_outcome) ==
  IF IsRaise(agent_outcome) THEN List(<<Str("Match analysis based on available game data")>>)
  ELSE agent_outcome

----------------------------------------------------------------------------
(* FormatManager                                                           *)

RECURSIVE JsonSerializable(_)
JsonSerializable(v) ==
  CASE v.t = "list" -> \A x \in {v.l[i] : i \in 1..Len(v.l)} : JsonSerializable(x)
    [] v.t = "dict" -> \A x \in {v.d[k] : k \in DOMAIN v.d} : JsonSerializable(x)
    [] v.t = "odict" -> \A x \in {v.items[i].v : i \in 1..Len(v.items)} : JsonSerializable(x)
    [] v.t \in {"model", "raise"} -> FALSE
    [] OTHER -> TRUE

UnknownGame ==
  Dict([game_id |-> Str("unknown"), home_team |-> Str("Unknown"), away_team |-> Str("Unknown"),
        home_score |-> Num(0), away_score |-> Num(0), date |-> Str("unknown"),
        venue |-> Str("Unknown"), status |-> Str("Unknown"), league |-> Str("Unknown"),
        season |-> Str("unknown")])

\* "k" in v; TypeError for a value that is no container
PyIn(k, v) ==
  CASE v.t \in {"dict", "list"} -> Bool(PyHasKey(v, k))
    [] IsPyStr(v) -> Bool(FALSE)
    [] OTHER -> Raise("argument is not iterable")

\* v[k] for a dict
PyItem(v, k) ==
  IF IsRaise(v) THEN v
  ELSE IF IsDict(v) THEN (IF k \in DOMAIN v.d THEN v.d[k] ELSE Raise(k))
  ELSE Raise("indices must be integers")

\* the game branch of _simplify_data_for_api: response_data has a "fixture" key
simplify_game(response_data) ==
  LET fixture == PyItem(response_data, "fixture")
      has == PyIn("response", fixture)
  IN IF IsRaise(has) THEN has
     ELSE IF has.b /\ Truthy(PyItem(fixture, "response"))
     THEN LET fixture_data == PyFirst(PyItem(fixture, "response"))
              fx == PyGet(fixture_data, "fixture", EmptyDict)
              teams == PyGet(fixture_data, "teams", EmptyDict)
              goals == PyGet(fixture_data, "goals", EmptyDict)
              league == PyGet(fixture_data, "league", EmptyDict)
              out == <<PyGet(fx, "id", None),
                       PyGet(PyGet(teams, "home", EmptyDict), "name", None),
                       PyGet(PyGet(teams, "away", EmptyDict), "name", None),
                       PyGet(goals, "home", None), PyGet(goals, "away", None),
                       PyGet(fx, "date", None),
                       PyGet(PyGet(fx, "venue", EmptyDict), "name", None),
                       PyGet(PyGet(fx, "status", EmptyDict), "long", None),
                       PyGet(league, "name", None), PyGet(league, "season", None)>>
          IN With(out, LAMBDA o :
                  IF IsRaise(FirstRaise(o)) THEN FirstRaise(o)
                  ELSE Dict([game_id |-> o[1], home_team |-> o[2], away_team |-> o[3],
                             home_score |-> o[4], away_score |-> o[5], date |-> o[6],
                             venue |-> o[7], status |-> o[8], league |-> o[9],
                             season |-> o[10]]))
     ELSE UnknownGame

\* _simplify_data_for_api for the values the game-recap pipeline hands it: the
\* collected game record and the comprehensive research dict
simplify_data_for_api(data) ==
  IF ~Truthy(data) THEN EmptyDict
  ELSE IF data.t = "model" THEN Dict(data.d)
  ELSE LET has == PyIn("response", data)
           out == IF IsRaise(has) THEN has
                  ELSE IF has.b /\ IsList(PyItem(data, "response"))
                  THEN LET response_data == IF Truthy(PyItem(data, "response"))
                                            THEN PyFirst(PyItem(data, "response"))
                                            ELSE EmptyDict
                           hasfx == PyIn("fixture", response_data)
                       IN IF IsRaise(hasfx) THEN hasfx
                          ELSE IF hasfx.b THEN simplify_game(response_data)
                          ELSE data
                  ELSE data
       IN With(out, LAMBDA o : IF IsRaise(o) THEN data ELSE o)

\* _parse_researcher_text: the four-key structure built from plain text
parse_researcher_text(text) ==
  Dict([key_findings |-> EmptyList, statistics |-> EmptyDict, context |-> Str(""),
        sources |-> EmptyList])

create_default_writer_structure(data) ==
  Dict([data |-> PyGet(data, "data", data), research |-> PyGet(data, "research", EmptyDict),
        storylines |-> PyGet(data, "storylines", List(<<Str("Default storyline")>>))])

parse_agent_output(text_output, target_format) ==
  IF ~IsPyStr(text_output)
  THEN Dict([error |-> Str("Parsing failed: expected string or bytes-like object"),
             original_text |-> text_output, target_format |-> Str(target_format)])
  ELSE IF text_output.t = "jsonstr" /\ IsDict(text_output.v)
  THEN IF target_format = "writer_input"
          /\ ~({"data", "research", "storylines"} \subseteq DOMAIN text_output.v.d)
       THEN create_default_writer_structure(text_output.v)
       ELSE text_output.v
  ELSE IF target_format = "writer_input"
       THEN create_default_writer_structure(Dict([content |-> text_output]))
       ELSE parse_researcher_text(text_output)

\* agent_outcome: the final output of Runner.run(self.format_agent, prompt), or Raise
convert_data_format(input_data, target_format, agent_outcome) ==
  IF IsRaise(agent_outcome)
  THEN Dict([error |-> Str("Conversion failed: " \o agent_outcome.msg)])
  ELSE parse_agent_output(agent_outcome, target_format)

\* str(v) inside an f-string, for the values that reach one here
PyStrOf(v) == IF v.t = "str" THEN v.s ELSE "<" \o v.t \o ">"

FormattingFailed(msg) == Dict([error |-> Str("Formatting failed: " \o msg)])

NotSerializable == "Object is not JSON serializable"

FormatManagerError(result) == "Format manager error: " \o PyStrOf(result.d.error)

MissingWriterKeys == "Formatted data missing required keys: data, research, or storylines"

prepare_data_for_researcher(data_collector_output, agent_outcome) ==
  With(simplify_data_for_api(data_collector_output),
       LAMBDA simplified_data :
         IF ~JsonSerializable(simplified_data) THEN FormattingFailed(NotSerializable)
         ELSE With(convert_data_format(simplified_data, "researcher_input", agent_outcome),
                   LAMBDA result :
                     IF PyHasKey(result, "error")
                     THEN FormattingFailed(FormatManagerError(result))
                     ELSE result))

prepare_data_for_writer(data_collector_output, research_output, agent_outcome) ==
  With(<<simplify_data_for_api(data_collector_output),
         IF Truthy(research_output) THEN simplify_data_for_api(research_output) ELSE None>>,
       LAMBDA simplified :
         IF ~JsonSerializable(simplified[1]) \/ ~JsonSerializable(simplified[2])
         THEN FormattingFailed(NotSerializable)
         ELSE With(convert_data_format(simplified[1], "writer_input", agent_outcome),
                   LAMBDA result :
                     IF PyHasKey(result, "error")
                     THEN FormattingFailed(FormatManagerError(result))
                     ELSE IF ~({"data", "research", "storylines"} \subseteq DOMAIN result.d)
                     THEN FormattingFailed(MissingWriterKeys)
                     ELSE result))

----------------------------------------------------------------------------
(* WritingAgent (scriber_agents/writer.py)                                 *)

\* an f-string: the template's name and the values interpolated into it
FStr(tpl, args) == [t |-> "fstr", tpl |-> tpl, args |-> args]

NoSummary == Str("No detailed data available")

\* s.title() for the article types the writer uses
PyTitle(s) ==
  CASE s = "game recap" -> "Game Recap"
    [] s = "player spotlight" -> "Player Spotlight"
    [] s = "game preview" -> "Game Preview"
    [] OTHER -> s

game_summary_parts(fixture) ==
  LET teams == PyGet(fixture, "teams", EmptyDict)
      goals == PyGet(fixture, "goals", EmptyDict)
      fx == PyGet(fixture, "fixture", EmptyDict)
  IN <<PyGet(PyGet(teams, "home", EmptyDict), "name", Str("Home")),
       PyGet(PyGet(teams, "away", EmptyDict), "name", Str("Away")),
       PyGet(goals, "home", Num(0)), PyGet(goals, "away", Num(0)),
       PyGet(fx, "date", Str("Unknown")),
       PyGet(PyGet(fx, "venue", EmptyDict), "name", Str("Unknown"))>>

team_summary_parts(team) ==
  <<PyGet(PyGet(team, "team", EmptyDict), "name", Str("Unknown")),
    PyGet(PyGet(team, "team", EmptyDict), "country", Str("Unknown")),
    PyGet(PyGet(team, "team", EmptyDict), "founded", Str("Unknown"))>>

player_summary_parts(player) ==
  <<PyGet(PyGet(player, "player", EmptyDict), "name", Str("Unknown")),
    PyGet(PyGet(player, "player", EmptyDict), "age", Str("Unknown")),
    PyGet(PyGet(PyFirst(PyGet(player, "statistics", List(<<EmptyDict>>))), "games", EmptyDict),
          "position", Str("Unknown"))>>

\* one branch of _format_data_summary: the sub-envelope under key, its first
\* response element, and the summary lines made of it
summary_branch(data, key, parts(_)) ==
  LET info == PyGet(PyFirst(PyGet(data, "response", List(<<EmptyDict>>))), key, EmptyDict)
  IN IF IsRaise(info) THEN info
     ELSE IF ~Truthy(info) THEN NoSummary
     ELSE LET resp == PyGet(info, "response", EmptyList)
          IN IF IsRaise(resp) THEN resp
             ELSE IF ~Truthy(resp) THEN NoSummary
             ELSE LET ps == parts(PyFirst(resp))
                  IN IF IsRaise(FirstRaise(ps)) THEN FirstRaise(ps)
                     ELSE FStr("summary:" \o key, ps)

format_data_summary(data) ==
  LET kind == PyGet(data, "get", None)
  IN IF IsRaise(kind) THEN kind
     ELSE IF kind = Str("game_data") THEN summary_branch(data, "fixture", game_summary_parts)
     ELSE IF kind = Str("team_data") THEN summary_branch(data, "team_info", team_summary_parts)
     ELSE IF kind = Str("player_data")
     THEN summary_branch(data, "player_info", player_summary_parts)
     ELSE NoSummary

\* _format_data_summary dropping the response it has read
data_without_response(data) ==
  IF IsDict(data) /\ "response" \in DOMAIN data.d
  THEN Dict([k \in DOMAIN data.d \ {"response"} |-> data.d[k]])
  ELSE data

\* the record a caller holds after _format_data_summary(data) returned: the method
\* only reads data (.get and [0]); summary_parts is a list of its own
data_after_format_data_summary(data) == data

create_prompt(article_type, data, research_data, storylines) ==
  LET lines == PyIter(storylines)
  IN IF IsRaise(lines) THEN lines
     ELSE IF IsRaise(format_data_summary(data)) THEN format_data_summary(data)
     ELSE FStr("prompt", <<Str(article_type), lines, format_data_summary(data)>>)

generate_fallback_article(article_type, data, storylines) ==
  LET data_summary == format_data_summary(data)
      lines == PyIter(storylines)
  IN IF IsRaise(data_summary) THEN data_summary
     ELSE IF IsRaise(lines) THEN lines
     ELSE FStr("fallback", <<Str(PyTitle(article_type)), data_summary, lines>>)

\* model_outcome: response.choices[0].message.content of the chat completion, or
\* Raise when the completion call (or reading its first choice) raised
writer_generate_game_recap(game_data, research_data, storylines, model_outcome) ==
  LET prompt == create_prompt("game recap", game_data, research_data, storylines)
  IN IF IsRaise(prompt) THEN prompt
     ELSE IF IsRaise(model_outcome) \/ IsRaise(PyStrip(model_outcome))
     THEN generate_fallback_article("game recap", game_data, storylines)
     ELSE PyStrip(model_outcome)

----------------------------------------------------------------------------
(* Game records and the outcomes of the external calls                     *)

TeamRec(id, name) == Dict([id |-> id, name |-> Str(name)])

PlayerRec(id, name) == Dict([player |-> Dict([id |-> Num(id), name |-> Str(name)])])

LineupRec(team, startXI, substitutes) ==
  Dict([team |-> team, formation |-> Str("4-3-3"), coach |-> Dict([name |-> Str("Coach")]),
        startXI |-> List(startXI), substitutes |-> List(substitutes)])

EventRec(type, detail, pid, name) ==
  Dict([type |-> Str(type), detail |-> Str(detail), time |-> Dict([elapsed |-> Num(10)]),
        team |-> TeamRec(Num(1), "Home FC"),
        player |-> Dict([id |-> Num(pid), name |-> Str(name)])])

HomeTeam == TeamRec(Num(1), "Home FC")
AwayTeam == TeamRec(Num(2), "Away FC")
League == Dict([id |-> Num(39), name |-> Str("League")])

Envelope(get, errors, results, response) ==
  Dict([get |-> Str(get), errors |-> List(errors), results |-> Num(results),
        response |-> List(response)])

\* a fixture with both lineups and three events
FullFixture ==
  Dict([teams |-> Dict([home |-> HomeTeam, away |-> AwayTeam]), league |-> League,
        lineups |-> List(<<LineupRec(HomeTeam, <<PlayerRec(10, "Ten")>>, <<PlayerRec(11, "Eleven")>>),
                           LineupRec(AwayTeam, <<PlayerRec(20, "Twenty")>>, <<>>)>>),
        events |-> List(<<EventRec("Goal", "Normal Goal", 10, "Ten"),
                          EventRec("subst", "Substitution 1", 11, "Eleven"),
                          EventRec("Card", "Yellow Card", 20, "Twenty")>>)])

\* a fixture that names its teams and carries neither lineups nor events
BareFixture ==
  Dict([teams |-> Dict([home |-> HomeTeam, away |-> AwayTeam]), league |-> League])

FullRecord == Envelope("fixtures", <<>>, 1, <<FullFixture>>)

\* a fixture with three players a side and six Goal or Card events
CrowdedFixture ==
  Dict([teams |-> Dict([home |-> HomeTeam, away |-> AwayTeam]), league |-> League,
        lineups |-> List(<<LineupRec(HomeTeam, <<PlayerRec(10, "Ten"), PlayerRec(12, "Twelve")>>,
                                     <<PlayerRec(11, "Eleven")>>),
                           LineupRec(AwayTeam, <<PlayerRec(20, "Twenty"), PlayerRec(21, "Twenty-one")>>,
                                     <<PlayerRec(22, "Twenty-two")>>)>>),
        events |-> List(<<EventRec("Goal", "Normal Goal", 10, "Ten"),
                          EventRec("Card", "Yellow Card", 20, "Twenty"),
                          EventRec("Goal", "Penalty", 12, "Twelve"),
                          EventRec("Card", "Yellow Card", 21, "Twenty-one"),
                          EventRec("Goal", "Normal Goal", 10, "Ten"),
                          EventRec("Card", "Red Card", 22, "Twenty-two")>>)])

CrowdedRecord == Envelope("fixtures", <<>>, 1, <<CrowdedFixture>>)
BareRecord == Envelope("fixtures", <<>>, 1, <<BareFixture>>)

\* the record shape in which every sub-call sits in its own envelope
NestedRecord ==
  Envelope("game_data", <<>>, 1,
           <<Dict([fixture |-> Envelope("fixtures", <<>>, 1, <<BareFixture>>),
                   events |-> Envelope("fixtures/events", <<>>, 0, <<>>)])>>)

FailedRecord == Envelope("fixtures", <<Str("rate limit exceeded")>>, 0, <<>>)

GameIds == {"239625", "1208021"}

\* what Runner.run on the collector agent ends with, for a game
GameAgentOutcomes ==
  {JsonStr(FullRecord), JsonStr(CrowdedRecord), JsonStr(BareRecord), JsonStr(NestedRecord),
   JsonStr(FailedRecord),
   JsonStr(EmptyDict), JsonStr(List(<<Num(1)>>)),
   Str("Error retrieving game data: timed out"), Str(""),
   Raise("Connection error."), Raise("")}

TeamEnvelope ==
  Envelope("teams", <<>>, 1, <<Dict([team |-> HomeTeam, venue |-> Dict([name |-> Str("Ground")])])>>)

TeamAgentOutcomes == {JsonStr(TeamEnvelope), Raise("Max turns (10) exceeded")}

\* what the format agent ends with: a JSON object, plain text, or an exception
FormatAgentOutcomes ==
  {JsonStr(Dict([game_data |-> Dict([home_team |-> Str("Home FC")])])),
   Str("Key findings: none"), Raise("Connection error.")}

AgentAnalysis ==
  Model("GameAnalysis",
        [fixture_summary |-> Dict([home |-> Str("Home FC")]), key_events |-> EmptyList,
         storylines |-> List(<<Str("Home FC edge it")>>), match_highlights |-> EmptyList])

AnalysisAgentOutcomes == {AgentAnalysis, Raise("Connection error.")}

Lines(n) == List([i \in 1..n |-> Str("storyline " \o ToString(i))])

MaxAgentStorylines == 6

StorylineAgentOutcomes == {Lines(0), Lines(3), Lines(MaxAgentStorylines), Raise("Connection error.")}

ResearchListOutcomes == {Lines(2), Raise("Connection error.")}

\* message.content of the completion, or the exception of the completion call
WriterModelOutcomes ==
  {Str("Home FC beat Away FC."), RawStr("Home FC beat Away FC."), None, Raise("Rate limit reached")}

----------------------------------------------------------------------------
(* AgentPipeline.generate_game_recap as a process: one record per run.     *)
(* pc is the statement the run has reached; pending holds the collaborator *)
(* calls awaited and not yet returned; trace logs calls and their returns. *)

RunIds == {1}

IdleRun ==
  [pc |-> "idle", game_id |-> "", start_time |-> 0, clock |-> 0,
   pending |-> {}, trace |-> <<>>, failed |-> {}, exc |-> None,
   raw_game_data |-> None, team_info |-> None, player_info |-> None,
   enhanced_team_data |-> None, enhanced_player_data |-> None,
   targets |-> <<>>, idx |-> 0, enhanced_key_players |-> <<>>, sample_players |-> <<>>,
   formatted_for_research |-> None, research_data |-> None, historical_context |-> None,
   player_performance_analysis |-> None, storylines |-> None,
   comprehensive_research_data |-> None, formatted_for_writer |-> None,
   article_content |-> None, result |-> None]

Event(kind, site) == [kind |-> kind, site |-> site]

\* the statement that follows the await of a call
StageAfter(site) ==
  CASE site = "collect_game_data" -> "extract"
    [] site = "collect_team_data:home" -> "enrich_team_away"
    [] site = "collect_team_data:away" -> "enrich_players"
    [] site = "prepare_data_for_researcher" -> "analyze"
    [] site = "analyze_game_data" -> "history"
    [] site = "get_history_from_team_data" -> "performance"
    [] site = "get_performance_from_player_game_data" -> "storylines"
    [] site = "generate_storylines" -> "format_writer"
    [] site = "prepare_data_for_writer" -> "write"
    [] site = "generate_game_recap" -> "respond"

\* a call made without awaiting it: the run goes on to its next statement
IssueDetached(rec, site) ==
  [rec EXCEPT !.pc = StageAfter(site), !.pending = @ \cup {site},
              !.trace = Append(@, Event("call", site))]

\* `await collaborator.method(..)`: the run is suspended until the call returns or raises
Issue(rec, site) ==
  [rec EXCEPT !.pc = "await", !.pending = @ \cup {site},
              !.trace = Append(@, Event("call", site))]

\* the awaited call is over: kind is "return" or "raise"; failed collects the calls
\* that raised and those that returned a substitute because an agent call raised
Resume(rec, site, kind) ==
  [rec EXCEPT !.pc = StageAfter(site), !.pending = @ \ {site}, !.clock = @ + 1,
              !.trace = Append(@, Event(kind, site)),
              !.failed = IF kind = "return" THEN @ ELSE @ \cup {site}]

Awaits(r, site) == run[r].pc = "await" /\ site \in run[r].pending

Others == <<self, ext, fetch, agent, svc>>

\* a run that begins by choosing the instance's model for its game
StartRunSelectingModel(r) ==
  /\ run[r].pc = "idle"
  /\ \E game_id \in GameIds :
       /\ run' = [run EXCEPT ![r] = [IdleRun EXCEPT !.pc = "collect", !.game_id = game_id]]
       /\ self' = [self EXCEPT !.model = "model-for-" \o game_id]
  /\ UNCHANGED <<ext, fetch, agent, svc>>

StartRun(r) ==
  /\ run[r].pc = "idle"
  /\ \E game_id \in GameIds :
       run' = [run EXCEPT ![r] = [IdleRun EXCEPT !.pc = "collect", !.game_id = game_id]]
  /\ UNCHANGED Others

CollectCall(r) ==
  /\ run[r].pc = "collect"
  /\ run' = [run EXCEPT ![r] = Issue(@, "collect_game_data")]
  /\ UNCHANGED Others

\* a pipeline that goes on to the extraction with whatever the collection left
CollectReturnContinuing(r) ==
  /\ Awaits(r, "collect_game_data")
  /\ \E final_output \in GameAgentOutcomes :
       LET raw == collect_game_data(final_output)
           rec == Resume(run[r], "collect_game_data", IF IsRaise(raw) THEN "raise" ELSE "return")
       IN run' = [run EXCEPT ![r] =
                    [rec EXCEPT !.raw_game_data = IF IsRaise(raw) THEN EmptyDict ELSE raw]]
  /\ UNCHANGED Others

\* _collect_game_data re-raises; a falsy record raises ValueError in the pipeline
CollectReturn(r) ==
  /\ Awaits(r, "collect_game_data")
  /\ \E final_output \in GameAgentOutcomes :
       LET raw == collect_game_data(final_output)
           exc == IF IsRaise(raw) THEN raw
                  ELSE IF ~Truthy(raw)
                  THEN Raise("Failed to collect data for game " \o run[r].game_id)
                  ELSE None
           rec == Resume(run[r], "collect_game_data", IF IsRaise(raw) THEN "raise" ELSE "return")
       IN run' = [run EXCEPT ![r] =
                    IF IsRaise(exc) THEN [rec EXCEPT !.pc = "failed", !.exc = exc]
                    ELSE [rec EXCEPT !.raw_game_data = raw]]
  /\ UNCHANGED Others

\* extraction that treats an error map as a failure of the run
ExtractAborting(r) ==
  /\ run[r].pc = "extract"
  /\ LET team_info == extract_team_info(run[r].raw_game_data)
         player_info == extract_player_info(run[r].raw_game_data)
         aborts == PyHasKey(team_info, "error") \/ PyHasKey(player_info, "error")
     IN run' = [run EXCEPT ![r] =
                  [@ EXCEPT !.pc = IF aborts THEN "failed" ELSE "enrich_team_home",
                            !.exc = IF aborts THEN Raise("Failed to extract game information")
                                    ELSE @,
                            !.team_info = team_info,
                            !.player_info = player_info,
                            !.trace = Append(@, Event("step", "extract"))]]
  /\ UNCHANGED Others

Extract(r) ==
  /\ run[r].pc = "extract"
  /\ run' = [run EXCEPT ![r] =
               [@ EXCEPT !.pc = "enrich_team_home",
                         !.team_info = extract_team_info(run[r].raw_game_data),
                         !.player_info = extract_player_info(run[r].raw_game_data),
                         !.trace = Append(@, Event("step", "extract"))]]
  /\ UNCHANGED Others

EnhancedTeamError(e) ==
  Dict([error |-> Str("Failed to collect enhanced team data: " \o e.msg)])

\* enhanced_team_data["enhanced_data"][key] = x
SetEnhanced(etd, key, x) == DictSet(etd, "enhanced_data", DictSet(etd.d.enhanced_data, key, x))

\* collect_enhanced_team_data up to its first await
EnrichTeamHome(r) ==
  /\ run[r].pc = "enrich_team_home"
  /\ LET team_info == run[r].team_info
         parts == <<PyGet(team_info, "home_team", EmptyDict), PyGet(team_info, "away_team", EmptyDict),
                    PyGet(team_info, "league", EmptyDict), PyGet(team_info, "home_lineup", EmptyDict),
                    PyGet(team_info, "away_lineup", EmptyDict),
                    PyGet(PyGet(team_info, "home_team", EmptyDict), "id", None)>>
         exc == FirstRaise(parts)
         base == Dict([home_team |-> parts[1], away_team |-> parts[2], league |-> parts[3],
                       home_lineup |-> parts[4], away_lineup |-> parts[5],
                       enhanced_data |-> EmptyDict])
     IN run' = [run EXCEPT ![r] =
                  IF IsRaise(exc)
                  THEN [@ EXCEPT !.pc = "enrich_players", !.enhanced_team_data = EnhancedTeamError(exc)]
                  ELSE IF Truthy(parts[6])
                  THEN [Issue(@, "collect_team_data:home") EXCEPT !.enhanced_team_data = base]
                  ELSE [@ EXCEPT !.pc = "enrich_team_away", !.enhanced_team_data = base]]
  /\ UNCHANGED Others

EnrichTeamHomeReturn(r) ==
  /\ Awaits(r, "collect_team_data:home")
  /\ \E final_output \in TeamAgentOutcomes :
       LET home_team_detailed == collect_team_data(final_output)
       IN run' = [run EXCEPT ![r] =
                    IF IsRaise(home_team_detailed)
                    THEN [Resume(@, "collect_team_data:home", "raise") EXCEPT
                            !.enhanced_team_data =
                               SetEnhanced(@, "home_team_detailed",
                                           Dict([error |-> Str(home_team_detailed.msg)]))]
                    ELSE [Resume(@, "collect_team_data:home", "return") EXCEPT
                            !.enhanced_team_data =
                               SetEnhanced(@, "home_team_detailed", home_team_detailed)]]
  /\ UNCHANGED Others

EnrichTeamAway(r) ==
  /\ run[r].pc = "enrich_team_away"
  /\ LET away_team_id == PyGet(PyGet(run[r].team_info, "away_team", EmptyDict), "id", None)
     IN run' = [run EXCEPT ![r] =
                  IF IsRaise(away_team_id)
                  THEN [@ EXCEPT !.pc = "enrich_players",
                                 !.enhanced_team_data = EnhancedTeamError(away_team_id)]
                  ELSE IF Truthy(away_team_id) THEN Issue(@, "collect_team_data:away")
                  ELSE [@ EXCEPT !.pc = "enrich_players"]]
  /\ UNCHANGED Others

EnrichTeamAwayReturn(r) ==
  /\ Awaits(r, "collect_team_data:away")
  /\ \E final_output \in TeamAgentOutcomes :
       LET away_team_detailed == collect_team_data(final_output)
       IN run' = [run EXCEPT ![r] =
                    IF IsRaise(away_team_detailed)
                    THEN [Resume(@, "collect_team_data:away", "raise") EXCEPT
                            !.enhanced_team_data =
                               SetEnhanced(@, "away_team_detailed",
                                           Dict([error |-> Str(away_team_detailed.msg)]))]
                    ELSE [Resume(@, "collect_team_data:away", "return") EXCEPT
                            !.enhanced_team_data =
                               SetEnhanced(@, "away_team_detailed", away_team_detailed)]]
  /\ UNCHANGED Others

EnhancedPlayerError(e) ==
  Dict([error |-> Str("Failed to collect enhanced player data: " \o e.msg)])

\* v[:n] of a sequence
Take(seq, n) == SubSeq(seq, 1, IF Len(seq) < n THEN Len(seq) ELSE n)

MaxKeyPlayers == 5
MaxSamplePlayers == 2

\* the first loop running over all key players
EnrichPlayersStartUnbounded(r) ==
  /\ run[r].pc = "enrich_players"
  /\ LET player_info == run[r].player_info
         parts == <<PyGet(player_info, "home_players", EmptyDict),
                    PyGet(player_info, "away_players", EmptyDict),
                    PyGet(player_info, "all_players", EmptyDict),
                    PyGet(player_info, "key_players", EmptyList)>>
     IN run' = [run EXCEPT ![r] =
                  [@ EXCEPT !.pc = "enrich_key",
                            !.enhanced_player_data =
                               Dict([home_players |-> parts[1], away_players |-> parts[2],
                                     all_players |-> parts[3], key_players |-> parts[4],
                                     enhanced_data |-> EmptyDict]),
                            !.targets = parts[4].l, !.idx = 1,
                            !.enhanced_key_players = <<>>, !.sample_players = <<>>]]
  /\ UNCHANGED Others

\* collect_enhanced_player_data up to its first loop
EnrichPlayersStart(r) ==
  /\ run[r].pc = "enrich_players"
  /\ LET player_info == run[r].player_info
         parts == <<PyGet(player_info, "home_players", EmptyDict),
                    PyGet(player_info, "away_players", EmptyDict),
                    PyGet(player_info, "all_players", EmptyDict),
                    PyGet(player_info, "key_players", EmptyList)>>
         exc == FirstRaise(parts)
     IN run' = [run EXCEPT ![r] =
                  IF IsRaise(exc)
                  THEN [@ EXCEPT !.pc = "format_research",
                                 !.enhanced_player_data = EnhancedPlayerError(exc)]
                  ELSE [@ EXCEPT !.pc = "enrich_key",
                                 !.enhanced_player_data =
                                    Dict([home_players |-> parts[1], away_players |-> parts[2],
                                          all_players |-> parts[3], key_players |-> parts[4],
                                          enhanced_data |-> EmptyDict]),
                                 !.targets = Take(parts[4].l, MaxKeyPlayers), !.idx = 1,
                                 !.enhanced_key_players = <<>>, !.sample_players = <<>>]]
  /\ UNCHANGED Others

\* one call self.collector.collect_player_data(str(player_id)): the call passes one
\* positional argument, so it is over, with its TypeError, before anything is awaited
PlayerCall(rec, player_id) ==
  LET player_detailed == collect_player_data(<<player_id>>, None)
  IN [rec EXCEPT !.clock = @ + 1,
                 !.trace = @ \o <<Event("call", "collect_player_data"),
                                  Event(IF IsRaise(player_detailed) THEN "raise" ELSE "return",
                                        "collect_player_data")>>,
                 !.failed = IF IsRaise(player_detailed) THEN @ \cup {"collect_player_data"} ELSE @]

\* the key-player loop treating a failed call as the sample loops do
EnrichKeyPlayerOmitting(r) ==
  /\ run[r].pc = "enrich_key"
  /\ run[r].idx <= Len(run[r].targets)
  /\ LET player == run[r].targets[run[r].idx]
         player_id == PyGet(player, "id", None)
         player_detailed == collect_player_data(<<player_id>>, None)
     IN run' = [run EXCEPT ![r] =
                  IF Truthy(player_id)
                  THEN [PlayerCall(@, player_id) EXCEPT
                          !.idx = @ + 1,
                          !.enhanced_key_players =
                             IF IsRaise(player_detailed) THEN @
                             ELSE Append(@, DictSet(player, "detailed_data", player_detailed))]
                  ELSE [@ EXCEPT !.idx = @ + 1]]
  /\ UNCHANGED Others

\* one iteration of the loop over key_players[:5]
EnrichKeyPlayer(r) ==
  /\ run[r].pc = "enrich_key"
  /\ run[r].idx <= Len(run[r].targets)
  /\ LET player == run[r].targets[run[r].idx]
         player_id == PyGet(player, "id", None)
         player_detailed == collect_player_data(<<player_id>>, None)
         enhanced_player == DictSet(player, "detailed_data",
                                    IF IsRaise(player_detailed)
                                    THEN Dict([error |-> Str(player_detailed.msg)])
                                    ELSE player_detailed)
     IN run' = [run EXCEPT ![r] =
                  IF IsRaise(player_id)
                  THEN [@ EXCEPT !.pc = "format_research",
                                 !.enhanced_player_data = EnhancedPlayerError(player_id)]
                  ELSE IF Truthy(player_id)
                  THEN [PlayerCall(@, player_id) EXCEPT
                          !.idx = @ + 1, !.enhanced_key_players = Append(@, enhanced_player)]
                  ELSE [@ EXCEPT !.idx = @ + 1]]
  /\ UNCHANGED Others

\* between the loops: the key players are stored, the samples chosen
EnrichSamplesStart(r) ==
  /\ run[r].pc = "enrich_key"
  /\ run[r].idx > Len(run[r].targets)
  /\ LET home_players == PyValues(PyGet(run[r].player_info, "home_players", EmptyDict))
         away_players == PyValues(PyGet(run[r].player_info, "away_players", EmptyDict))
     IN run' = [run EXCEPT ![r] =
                  [@ EXCEPT !.pc = "enrich_sample",
                            !.enhanced_player_data =
                               DictSet(@, "enhanced_key_players", List(run[r].enhanced_key_players)),
                            !.targets = Take(home_players, MaxSamplePlayers)
                                          \o Take(away_players, MaxSamplePlayers),
                            !.idx = 1]]
  /\ UNCHANGED Others

\* one iteration of the loops over home_players[:2] and away_players[:2]
EnrichSamplePlayer(r) ==
  /\ run[r].pc = "enrich_sample"
  /\ run[r].idx <= Len(run[r].targets)
  /\ LET player == run[r].targets[run[r].idx]
         player_id == PyGet(player, "id", None)
         player_detailed == collect_player_data(<<player_id>>, None)
     IN run' = [run EXCEPT ![r] =
                  IF IsRaise(player_id)
                  THEN [@ EXCEPT !.pc = "format_research",
                                 !.enhanced_player_data = EnhancedPlayerError(player_id)]
                  ELSE IF Truthy(player_id)
                  THEN [PlayerCall(@, player_id) EXCEPT
                          !.idx = @ + 1,
                          !.sample_players =
                             IF IsRaise(player_detailed) THEN @
                             ELSE Append(@, DictSet(player, "detailed_data", player_detailed))]
                  ELSE [@ EXCEPT !.idx = @ + 1]]
  /\ UNCHANGED Others

EnrichPlayersDone(r) ==
  /\ run[r].pc = "enrich_sample"
  /\ run[r].idx > Len(run[r].targets)
  /\ run' = [run EXCEPT ![r] =
               [@ EXCEPT !.pc = "format_research",
                         !.enhanced_player_data =
                            DictSet(@, "sample_players_detailed", List(run[r].sample_players))]]
  /\ UNCHANGED Others

\* len(v)
PyLen(v) ==
  CASE v.t = "list" -> Num(Len(v.l))
    [] v.t = "dict" -> Num(Cardinality(DOMAIN v.d))
    [] v.t = "odict" -> Num(Len(v.items))
    [] IsPyStr(v) -> Num(1)
    [] OTHER -> Raise("object has no len()")

\* the pipeline adds the enrichment results to a formatted record that is no error
WithEnrichment(formatted, rec) ==
  IF PyHasKey(formatted, "error") THEN formatted
  ELSE DictSet(DictSet(formatted, "team_info", rec.enhanced_team_data),
               "player_info", rec.enhanced_player_data)

FormatResearchCall(r) ==
  /\ run[r].pc = "format_research"
  /\ run' = [run EXCEPT ![r] = Issue(@, "prepare_data_for_researcher")]
  /\ UNCHANGED Others

FormatResearchReturn(r) ==
  /\ Awaits(r, "prepare_data_for_researcher")
  /\ \E agent_outcome \in FormatAgentOutcomes :
       \E formatted \in {prepare_data_for_researcher(run[r].raw_game_data, agent_outcome)} :
          run' = [run EXCEPT ![r] =
                    [Resume(@, "prepare_data_for_researcher",
                            IF PyHasKey(formatted, "error") THEN "substitute" ELSE "return")
                       EXCEPT !.formatted_for_research = WithEnrichment(formatted, run[r])]]
  /\ UNCHANGED Others

AnalyzeCall(r) ==
  /\ run[r].pc = "analyze"
  /\ run' = [run EXCEPT ![r] = Issue(@, "analyze_game_data")]
  /\ UNCHANGED Others

AnalyzeReturn(r) ==
  /\ Awaits(r, "analyze_game_data")
  /\ \E agent_outcome \in AnalysisAgentOutcomes :
       run' = [run EXCEPT ![r] =
                 [Resume(@, "analyze_game_data",
                         IF IsRaise(agent_outcome) THEN "substitute" ELSE "return")
                    EXCEPT !.research_data =
                             analyze_game_data(run[r].formatted_for_research, agent_outcome)]]
  /\ UNCHANGED Others

HistoryCall(r) ==
  /\ run[r].pc = "history"
  /\ run' = [run EXCEPT ![r] = Issue(@, "get_history_from_team_data")]
  /\ UNCHANGED Others

HistoryReturn(r) ==
  /\ Awaits(r, "get_history_from_team_data")
  /\ \E agent_outcome \in ResearchListOutcomes :
       run' = [run EXCEPT ![r] =
                 [Resume(@, "get_history_from_team_data",
                         IF IsRaise(agent_outcome) THEN "substitute" ELSE "return")
                    EXCEPT !.historical_context =
                             get_history_from_team_data(run[r].enhanced_team_data, agent_outcome)]]
  /\ UNCHANGED Others

PerformanceCall(r) ==
  /\ run[r].pc = "performance"
  /\ run' = [run EXCEPT ![r] = Issue(@, "get_performance_from_player_game_data")]
  /\ UNCHANGED Others

PerformanceReturn(r) ==
  /\ Awaits(r, "get_performance_from_player_game_data")
  /\ \E agent_outcome \in ResearchListOutcomes :
       run' = [run EXCEPT ![r] =
                 [Resume(@, "get_performance_from_player_game_data",
                         IF IsRaise(agent_outcome) THEN "substitute" ELSE "return")
                    EXCEPT !.player_performance_analysis =
                             get_performance_from_player_game_data(
                               run[r].enhanced_player_data, run[r].formatted_for_research,
                               agent_outcome)]]
  /\ UNCHANGED Others

StorylinesCall(r) ==
  /\ run[r].pc = "storylines"
  /\ run' = [run EXCEPT ![r] = Issue(@, "generate_storylines")]
  /\ UNCHANGED Others

\* the values the pipeline's log lines compute from the storylines: storyline[:100]
\* for the first three, and len(storylines)
storylines_logged(storylines) ==
  IF IsList(storylines)
  THEN FirstRaise([i \in 1..Len(Take(storylines.l, 3)) |-> PySlice5(storylines.l[i])]
                  \o <<PyLen(storylines)>>)
  ELSE FirstRaise(<<PyLen(storylines)>>)

StorylinesReturn(r) ==
  /\ Awaits(r, "generate_storylines")
  /\ \E agent_outcome \in StorylineAgentOutcomes :
     \E storylines \in {generate_storylines(<<run[r].formatted_for_research>>, agent_outcome)} :
       LET rec == Resume(run[r], "generate_storylines",
                         IF IsRaise(agent_outcome) THEN "substitute" ELSE "return")
           exc == storylines_logged(storylines)
       IN run' = [run EXCEPT ![r] =
                    [rec EXCEPT
                       !.storylines = storylines,
                       !.comprehensive_research_data =
                          Dict([game_analysis |-> rec.research_data,
                                historical_context |-> rec.historical_context,
                                player_performance |-> rec.player_performance_analysis,
                                storylines |-> storylines,
                                team_info |-> rec.enhanced_team_data,
                                player_info |-> rec.enhanced_player_data]),
                       !.pc = IF IsRaise(exc) THEN "failed" ELSE @,
                       !.exc = exc]]
  /\ UNCHANGED Others

FormatWriterCall(r) ==
  /\ run[r].pc = "format_writer"
  /\ run' = [run EXCEPT ![r] = Issue(@, "prepare_data_for_writer")]
  /\ UNCHANGED Others

\* the log line len(formatted_for_writer['storylines'])
writer_data_logged(formatted) ==
  IF PyHasKey(formatted, "storylines") THEN FirstRaise(<<PyLen(formatted.d.storylines)>>)
  ELSE None

FormatWriterReturn(r) ==
  /\ Awaits(r, "prepare_data_for_writer")
  /\ \E agent_outcome \in FormatAgentOutcomes :
       \E formatted \in {prepare_data_for_writer(run[r].raw_game_data,
                                                   run[r].comprehensive_research_data,
                                                   agent_outcome)} :
        LET exc == writer_data_logged(formatted)
        IN run' = [run EXCEPT ![r] =
                    [Resume(@, "prepare_data_for_writer",
                            IF PyHasKey(formatted, "error") THEN "substitute" ELSE "return")
                       EXCEPT !.formatted_for_writer = WithEnrichment(formatted, run[r]),
                              !.pc = IF IsRaise(exc) THEN "failed" ELSE @,
                              !.exc = exc]]
  /\ UNCHANGED Others

WriterCall(r) ==
  /\ run[r].pc = "write"
  /\ run' = [run EXCEPT ![r] = Issue(@, "generate_game_recap")]
  /\ UNCHANGED Others

WriterReturn(r) ==
  /\ Awaits(r, "generate_game_recap")
  /\ \E model_outcome \in WriterModelOutcomes :
       \E article_content \in
             {writer_generate_game_recap(run[r].formatted_for_writer,
                                         run[r].comprehensive_research_data,
                                         run[r].storylines, model_outcome)} :
          run' = [run EXCEPT ![r] =
                    IF IsRaise(article_content)
                    THEN [Resume(@, "generate_game_recap", "raise") EXCEPT
                            !.pc = "failed", !.exc = article_content]
                    ELSE [Resume(@, "generate_game_recap",
                                 IF IsRaise(model_outcome) \/ IsRaise(PyStrip(model_outcome))
                                 THEN "substitute" ELSE "return")
                            EXCEPT !.article_content = article_content]]
  /\ UNCHANGED Others

\* "error" not in v
NotIn(k, v) == IF IsRaise(PyIn(k, v)) THEN PyIn(k, v) ELSE Bool(~PyIn(k, v).b)

\* a response that takes its storylines from the game analysis instead of from
\* generate_storylines
success_result_analysis_storylines(rec, model) ==
  Dict([success |-> Bool(TRUE), game_id |-> Str(rec.game_id),
        article_type |-> Str("game_recap"), content |-> rec.article_content,
        storylines |-> rec.research_data.d.storylines,
        team_info |-> rec.enhanced_team_data, player_info |-> rec.enhanced_player_data,
        research_data |-> rec.comprehensive_research_data,
        historical_context |-> rec.historical_context,
        player_performance_analysis |-> rec.player_performance_analysis,
        metadata |-> Dict([model_used |-> Str(model)])])

\* the dict of the return statement that ends a run which met no exception
success_result(rec, model) ==
  With(<<NotIn("error", rec.team_info), NotIn("error", rec.player_info),
         NotIn("error", rec.enhanced_team_data), NotIn("error", rec.enhanced_player_data),
         NotIn("error", rec.historical_context),
         NotIn("error", rec.player_performance_analysis), PyLen(rec.storylines)>>,
       LAMBDA flags :
     IF IsRaise(FirstRaise(flags)) THEN FirstRaise(flags)
     ELSE Dict([success |-> Bool(TRUE), game_id |-> Str(rec.game_id),
                article_type |-> Str("game_recap"), content |-> rec.article_content,
                storylines |-> rec.storylines, team_info |-> rec.enhanced_team_data,
                player_info |-> rec.enhanced_player_data,
                research_data |-> rec.comprehensive_research_data,
                historical_context |-> rec.historical_context,
                player_performance_analysis |-> rec.player_performance_analysis,
                metadata |->
                  Dict([generated_at |-> Num(rec.clock),
                        pipeline_duration |-> Num(rec.clock - rec.start_time),
                        data_sources |-> List(<<Str("rapidapi_football")>>),
                        model_used |-> Str(model), format_manager_used |-> Bool(TRUE),
                        team_info_extracted |-> flags[1], player_info_extracted |-> flags[2],
                        enhanced_team_data_collected |-> flags[3],
                        enhanced_player_data_collected |-> flags[4],
                        historical_context_analyzed |-> flags[5],
                        player_performance_analyzed |-> flags[6],
                        comprehensive_storylines_generated |-> Bool(flags[7].i > 0)])]))

\* an except block whose dict names neither the game nor the time
failure_result_anonymous(rec, model, e) ==
  Dict([success |-> Bool(FALSE), error |-> Str(e.msg),
        research_data |-> Dict([storylines |-> EmptyList]),
        metadata |-> Dict([error_occurred |-> Bool(TRUE),
                           error_step |-> Str("pipeline_execution")])])

\* an except block that re-raises: the exception leaves generate_game_recap
failure_reraised(rec, model, e) == e

\* the dict returned by the except block: e is the exception caught
failure_result(rec, model, e) ==
  Dict([success |-> Bool(FALSE), game_id |-> Str(rec.game_id), error |-> Str(e.msg),
        research_data |->
          Dict([game_analysis |-> None, historical_context |-> None,
                player_performance |-> None, storylines |-> EmptyList,
                team_info |-> None, player_info |-> None]),
        metadata |->
          Dict([generated_at |-> Num(rec.clock),
                pipeline_duration |-> Num(rec.clock - rec.start_time),
                data_sources |-> List(<<Str("rapidapi_football")>>),
                model_used |-> Str(model), error_occurred |-> Bool(TRUE),
                error_step |-> Str("pipeline_execution")])])

Respond(r) ==
  /\ run[r].pc = "respond"
  /\ \E result \in {success_result(run[r], self.model)} :
       run' = [run EXCEPT ![r] =
                  IF IsRaise(result) THEN [@ EXCEPT !.pc = "failed", !.exc = result]
                  ELSE [@ EXCEPT !.pc = "done", !.result = result,
                                 !.trace = Append(@, Event("step", "response"))]]
  /\ UNCHANGED Others

\* an except block that starts the run over when nothing but the collection was tried
RespondFailureRetrying(r) ==
  /\ run[r].pc = "failed"
  /\ run' = [run EXCEPT ![r] =
               IF Len(run[r].trace) = 2
               THEN [@ EXCEPT !.pc = "collect", !.exc = None]
               ELSE [@ EXCEPT !.pc = "done",
                              !.result = failure_result(run[r], self.model, run[r].exc),
                              !.trace = Append(@, Event("step", "response"))]]
  /\ UNCHANGED Others

RespondFailure(r) ==
  /\ run[r].pc = "failed"
  /\ run' = [run EXCEPT ![r] =
               [@ EXCEPT !.pc = "done", !.result = failure_result(run[r], self.model, run[r].exc),
                         !.trace = Append(@, Event("step", "response"))]]
  /\ UNCHANGED Others

----------------------------------------------------------------------------
(* The pipeline specification                                              *)

Models == {"gpt-4", "gpt-4o"}

\* AgentPipeline.__init__ has returned: both keys are set
PipelineInit ==
  \E model \in Models :
    self = [openai_api_key |-> "sk-test", rapidapi_key |-> "rapid-test", model |-> model,
            temperature |-> "0.7", max_tokens |-> 2000]

ExtIdle == [raw |-> None, orig |-> None, self0 |-> None, team |-> None, player |-> None,
            team1 |-> None, player1 |-> None, simplified |-> None, calls |-> 0]

FetchIdle == [pc |-> "idle", key |-> TRUE, op |-> "", exchange |-> None, fetches |-> <<>>,
              result |-> None]

\* no call made on a ResearchAgent or a WritingAgent
AgentIdle ==
  [pc |-> "idle", data |-> None, data0 |-> None, storylines |-> None, op |-> "",
   article_type |-> "", outcome |-> None, result |-> None, completions |-> 0,
   first |-> None, trace |-> <<>>, calls |-> 0]

\* the service before its startup
SvcIdle ==
  [pc |-> "down", orchestrator |-> FALSE, endpoint |-> "", body |-> None,
   agents_outcome |-> None, collector_outcome |-> None, ready |-> FALSE, response |-> None,
   invoked |-> <<>>, written |-> None, reviewed |-> None, requests |-> 0]

Init ==
  /\ PipelineInit
  /\ run = [r \in RunIds |-> IdleRun]
  /\ ext = ExtIdle
  /\ fetch = FetchIdle
  /\ agent = AgentIdle
  /\ svc = SvcIdle

Next ==
  \E r \in RunIds :
    \/ StartRun(r)
    \/ CollectCall(r)
    \/ CollectReturn(r)
    \/ Extract(r)
    \/ EnrichTeamHome(r)
    \/ EnrichTeamHomeReturn(r)
    \/ EnrichTeamAway(r)
    \/ EnrichTeamAwayReturn(r)
    \/ EnrichPlayersStart(r)
    \/ EnrichKeyPlayer(r)
    \/ EnrichSamplesStart(r)
    \/ EnrichSamplePlayer(r)
    \/ EnrichPlayersDone(r)
    \/ FormatResearchCall(r)
    \/ FormatResearchReturn(r)
    \/ AnalyzeCall(r)
    \/ AnalyzeReturn(r)
    \/ HistoryCall(r)
    \/ HistoryReturn(r)
    \/ PerformanceCall(r)
    \/ PerformanceReturn(r)
    \/ StorylinesCall(r)
    \/ StorylinesReturn(r)
    \/ FormatWriterCall(r)
    \/ FormatWriterReturn(r)
    \/ WriterCall(r)
    \/ WriterReturn(r)
    \/ Respond(r)
    \/ RespondFailure(r)

Spec == Init /\ [][Next]_vars

----------------------------------------------------------------------------
(* Properties of the pipeline (specification Spec)                         *)

Finished(r) == run[r].pc = "done"

\* the run ended in the except block of generate_game_recap
Caught(r) == Finished(r) /\ IsRaise(run[r].exc)

\* the run ended with the return statement of the try block
Returned(r) == Finished(r) /\ ~IsRaise(run[r].exc)

FailureShape(r) ==
  /\ IsDict(run[r].result)
  /\ run[r].result.d.success = Bool(FALSE)
  /\ run[r].result.d.game_id = Str(run[r].game_id)
  /\ run[r].result.d.research_data.d.storylines = EmptyList
  /\ run[r].result.d.metadata.d.error_occurred = Bool(TRUE)

\* C1 (amended): generate_game_recap never lets an exception out.  An exception
\* raised in any stage is held only until the except block answers, and the run
\* then returns a dict with success == false, the requested game_id,
\* error == str(exception) (the empty string when the exception has no message),
\* research_data.storylines == [] and metadata.error_occurred == true.
C1_FailureIsStructured ==
  \A r \in RunIds :
    /\ IsRaise(run[r].exc) => run[r].pc \in {"failed", "done"}
    /\ run[r].pc = "failed" => IsRaise(run[r].exc)
    /\ Finished(r) => IsDict(run[r].result)
    /\ Caught(r) => FailureShape(r) /\ run[r].result.d.error = Str(run[r].exc.msg)

\* a run whose collection raised has been answered with the failure dict
C1_Witness ==
  \E r \in RunIds :
    /\ Caught(r)
    /\ "collect_game_data" \in run[r].failed
    /\ run[r].result.d.success = Bool(FALSE)
    /\ run[r].result.d.error = Str("Connection error.")

\* C1 as stated: the failure dict carries a non-empty error string
C1_ErrorNonEmpty ==
  \A r \in RunIds :
    Caught(r) => FailureShape(r) /\ run[r].result.d.error.t = "str"
                                 /\ run[r].result.d.error.s # ""

\* what a writer call and a storyline call return when their generation succeeded
WriterTexts == {PyStrip(m) : m \in {m \in WriterModelOutcomes : ~IsRaise(m) /\ ~IsRaise(PyStrip(m))}}

StorylineLists == {PySlice5(o) : o \in {o \in StorylineAgentOutcomes : ~IsRaise(o)}}

Rank(e) ==
  CASE e.site = "collect_game_data" -> 1
    [] e.site = "extract" -> 2
    [] e.site = "collect_team_data:home" -> 3
    [] e.site = "collect_team_data:away" -> 4
    [] e.site = "collect_player_data" -> 5
    [] e.site = "prepare_data_for_researcher" -> 6
    [] e.site = "analyze_game_data" -> 7
    [] e.site = "get_history_from_team_data" -> 8
    [] e.site = "get_performance_from_player_game_data" -> 9
    [] e.site = "generate_storylines" -> 10
    [] e.site = "prepare_data_for_writer" -> 11
    [] e.site = "generate_game_recap" -> 12
    [] e.site = "response" -> 13

Ended(e) == e.kind \in {"return", "raise", "substitute"}

\* C3: within a run at most one collaborator call is in flight; every call in the
\* trace is directly followed by its own return or raise, or is the last event
\* while the run is suspended on it; and the events follow the order collect,
\* extract, team enrichment (home, away), player enrichment, format-for-research,
\* the research calls, format-for-writer, writer, response.
C3_Sequential ==
  \A r \in RunIds :
    LET trace == run[r].trace
    IN /\ Cardinality(run[r].pending) <= 1
       /\ run[r].pending # {} => run[r].pc = "await"
       /\ \A i \in 1..Len(trace) :
            /\ trace[i].kind = "call" =>
                 IF i = Len(trace) THEN run[r].pending = {trace[i].site}
                 ELSE Ended(trace[i + 1]) /\ trace[i + 1].site = trace[i].site
            /\ Ended(trace[i]) => i > 1 /\ trace[i - 1] = Event("call", trace[i].site)
            /\ i < Len(trace) =>
                 /\ Rank(trace[i]) <= Rank(trace[i + 1])
                 /\ (trace[i + 1].kind = "call" /\ trace[i + 1].site # "collect_player_data")
                      => Rank(trace[i]) < Rank(trace[i + 1])
       /\ Finished(r) => trace[Len(trace)] = Event("step", "response")

\* a finished run that made every kind of call, the writer's last
C3_Witness ==
  \E r \in RunIds :
    /\ Returned(r)
    /\ {run[r].trace[i].site : i \in 1..Len(run[r].trace)} =
         {"collect_game_data", "extract", "collect_team_data:home", "collect_team_data:away",
          "collect_player_data", "prepare_data_for_researcher", "analyze_game_data",
          "get_history_from_team_data", "get_performance_from_player_game_data",
          "generate_storylines", "prepare_data_for_writer", "generate_game_recap", "response"}

SuccessKeys ==
  {"success", "game_id", "article_type", "content", "storylines", "team_info", "player_info",
   "research_data", "historical_context", "player_performance_analysis", "metadata"}

SuccessMetadataKeys ==
  {"generated_at", "pipeline_duration", "data_sources", "model_used", "format_manager_used",
   "team_info_extracted", "player_info_extracted", "enhanced_team_data_collected",
   "enhanced_player_data_collected", "historical_context_analyzed",
   "player_performance_analyzed", "comprehensive_storylines_generated"}

\* the calls of the research and writer stages that generate text
GenerationSites == {"analyze_game_data", "generate_storylines", "generate_game_recap"}

\* C4: a run in which the agent call of analyze_game_data or generate_storylines, or
\* the writer's model call, raised still returns success == true; the result has
\* the keys of any successful result and no error field, its storylines are the
\* filler list (flagged as generated) and its content is the fallback article.
C4_GenerationFailureNotSurfaced ==
  \A r \in RunIds :
    (Finished(r) /\ run[r].failed \cap GenerationSites # {}) =>
      /\ Returned(r)
      /\ run[r].result.d.success = Bool(TRUE)
      /\ DOMAIN run[r].result.d = SuccessKeys
      /\ DOMAIN run[r].result.d.metadata.d = SuccessMetadataKeys
      /\ "analyze_game_data" \in run[r].failed
           => run[r].result.d.research_data.d.game_analysis = FillerGameAnalysis
      /\ "generate_storylines" \in run[r].failed
           => /\ run[r].result.d.storylines = FillerStorylines
              /\ run[r].result.d.metadata.d.comprehensive_storylines_generated = Bool(TRUE)
      /\ "generate_game_recap" \in run[r].failed
           => /\ run[r].result.d.content.t = "fstr"
              /\ run[r].result.d.content.tpl = "fallback"

\* a successful answer built from filler storylines and the fallback article
C4_Witness ==
  \E r \in RunIds :
    /\ Returned(r)
    /\ {"generate_storylines", "generate_game_recap"} \subseteq run[r].failed
    /\ run[r].result.d.success = Bool(TRUE)
    /\ run[r].result.d.storylines = FillerStorylines
    /\ run[r].result.d.content.t = "fstr"

\* the collection of run r is over and left no record: collect_game_data raised,
\* or returned a falsy value
CollectionFailed(r) ==
  /\ Len(run[r].trace) >= 2
  /\ run[r].trace[2].site = "collect_game_data"
  /\ \/ run[r].trace[2].kind = "raise"
     \/ ~Truthy(run[r].raw_game_data)

\* C24: when collect_game_data raised or returned a falsy value, no extraction,
\* enrichment, format, research or writer call is made in the run, and the run
\* returns success == false.
C24_FailedCollectionStopsRun ==
  \A r \in RunIds :
    CollectionFailed(r) =>
      /\ \A i \in DOMAIN run[r].trace : run[r].trace[i].site \in {"collect_game_data", "response"}
      /\ run[r].pc \in {"failed", "done"}
      /\ run[r].team_info = None /\ run[r].player_info = None
      /\ Finished(r) => run[r].result.d.success = Bool(FALSE)

\* the collector returned an empty record: the run ended with the failure dict
\* after its one call
C24_Witness ==
  \E r \in RunIds :
    /\ Finished(r)
    /\ run[r].trace = <<Event("call", "collect_game_data"), Event("return", "collect_game_data"),
                        Event("step", "response")>>
    /\ run[r].result.d.success = Bool(FALSE)
    /\ run[r].result.d.error = Str("Failed to collect data for game " \o run[r].game_id)

\* an {"error": ..} map, as a stage returns it in place of its result
Sentinel(v) == IsDict(v) /\ "error" \in DOMAIN v.d

\* run r has called site
Called(r, site) == \E i \in DOMAIN run[r].trace : run[r].trace[i] = Event("call", site)

\* a stage of run r answered with an error map
SentinelSeen(r) ==
  \/ Sentinel(run[r].team_info) \/ Sentinel(run[r].player_info)
  \/ Sentinel(run[r].enhanced_team_data) \/ Sentinel(run[r].enhanced_player_data)
  \/ Sentinel(run[r].formatted_for_research) \/ Sentinel(run[r].formatted_for_writer)

\* C25: an {"error": ..} map returned by extract_team_info, extract_player_info,
\* collect_enhanced_team_data, collect_enhanced_player_data or the format
\* manager's prepare functions does not abort the run: the run still calls the
\* research stage and the writer, its result has success == true, and the
\* extraction and enrichment flags of its metadata are false exactly for the
\* stages that answered with an error map.
C25_SentinelDoesNotAbort ==
  \A r \in RunIds :
    (Finished(r) /\ SentinelSeen(r)) =>
      /\ Called(r, "analyze_game_data")
      /\ Called(r, "generate_game_recap")
      /\ run[r].result.d.success = Bool(TRUE)
      /\ run[r].result.d.metadata.d.team_info_extracted = Bool(~Sentinel(run[r].team_info))
      /\ run[r].result.d.metadata.d.player_info_extracted = Bool(~Sentinel(run[r].player_info))
      /\ run[r].result.d.metadata.d.enhanced_team_data_collected =
           Bool(~Sentinel(run[r].enhanced_team_data))
      /\ run[r].result.d.metadata.d.enhanced_player_data_collected =
           Bool(~Sentinel(run[r].enhanced_player_data))

C25_Witness ==
  \E r \in RunIds :
    /\ Finished(r) /\ run[r].result.d.success = Bool(TRUE)
    /\ Sentinel(run[r].team_info)
    /\ run[r].result.d.metadata.d.team_info_extracted = Bool(FALSE)
    /\ Called(r, "generate_game_recap")

\* the number of calls of site that run r has made
CallCount(r, site) ==
  Cardinality({i \in DOMAIN run[r].trace : run[r].trace[i] = Event("call", site)})

MaxPlayerCalls == MaxKeyPlayers + 2 * MaxSamplePlayers

\* C27: the enrichment of one run calls collector.collect_team_data at most
\* twice, once for the home team and then once for the away team, and calls
\* collector.collect_player_data at most 9 times: at most 5 times in the loop
\* over the key players and at most 2 + 2 times for the sample players,
\* whatever the number of players and key players of the record.
C27_EnrichmentFanOutBounded ==
  \A r \in RunIds :
    /\ CallCount(r, "collect_team_data:home") <= 1
    /\ CallCount(r, "collect_team_data:away") <= 1
    /\ \A i, j \in DOMAIN run[r].trace :
         (/\ run[r].trace[i] = Event("call", "collect_team_data:home")
          /\ run[r].trace[j] = Event("call", "collect_team_data:away")) => i < j
    /\ CallCount(r, "collect_player_data") <= MaxPlayerCalls
    /\ run[r].pc = "enrich_key" => CallCount(r, "collect_player_data") <= MaxKeyPlayers
    /\ run[r].pc = "enrich_sample" =>
         CallCount(r, "collect_player_data")
           <= Len(run[r].enhanced_key_players) + 2 * MaxSamplePlayers

\* a record with six key players and three players a side: both team calls and
\* nine player calls
C27_Witness ==
  \E r \in RunIds :
    /\ Finished(r)
    /\ PyHasKey(run[r].player_info, "key_players")
    /\ Len(run[r].player_info.d.key_players.l) > MaxKeyPlayers
    /\ Len(run[r].player_info.d.home_players.items) > MaxSamplePlayers
    /\ Len(run[r].player_info.d.away_players.items) > MaxSamplePlayers
    /\ CallCount(r, "collect_team_data:home") = 1
    /\ CallCount(r, "collect_team_data:away") = 1
    /\ CallCount(r, "collect_player_data") = MaxPlayerCalls

\* the number of collect_player_data calls of run r that raised
RaisedPlayerCalls(r) ==
  Cardinality({i \in DOMAIN run[r].trace :
                 run[r].trace[i] = Event("raise", "collect_player_data")})

\* the first five key players and the first two players of each side
KeyTargets(r) == Take(PyGet(run[r].player_info, "key_players", EmptyList).l, MaxKeyPlayers)

SampleTargets(r) ==
  Take(PyValues(PyGet(run[r].player_info, "home_players", EmptyDict)), MaxSamplePlayers)
    \o Take(PyValues(PyGet(run[r].player_info, "away_players", EmptyDict)), MaxSamplePlayers)

\* collect_enhanced_player_data of run r has returned
PlayersEnriched(r) == PyHasKey(run[r].enhanced_player_data, "sample_players_detailed")

\* C28: collect_enhanced_player_data does not raise; its result has one
\* enhanced_key_players entry for each of the first five key players (all of
\* which have an id), in key-player order, that is the key player plus a
\* detailed_data, and detailed_data is an {"error": ..} map for a player whose
\* collector call raised; sample_players_detailed holds, in order, the sample
\* players whose call did not raise, so every raised call accounts for one
\* error entry or one omitted sample player.
C28_PlayerFailuresHandledPerPlayer ==
  \A r \in RunIds :
    /\ run[r].pc \in {"enrich_key", "enrich_sample", "format_research"} => run[r].exc = None
    /\ PlayersEnriched(r) =>
         LET key == KeyTargets(r)
             enhanced == run[r].enhanced_player_data.d.enhanced_key_players.l
             samples == run[r].enhanced_player_data.d.sample_players_detailed.l
             errors == {i \in 1..Len(enhanced) : Sentinel(enhanced[i].d.detailed_data)}
         IN /\ Len(enhanced) = Len(key)
            /\ \A i \in 1..Len(key) :
                 /\ Truthy(PyGet(key[i], "id", None))
                 /\ "detailed_data" \in DOMAIN enhanced[i].d
                 /\ enhanced[i] = DictSet(key[i], "detailed_data", enhanced[i].d.detailed_data)
            /\ Len(samples) <= Len(SampleTargets(r))
            /\ \A i \in 1..Len(samples) :
                 \E j \in 1..Len(SampleTargets(r)) :
                   samples[i] = DictSet(SampleTargets(r)[j], "detailed_data",
                                        samples[i].d.detailed_data)
            /\ CallCount(r, "collect_player_data") = Len(key) + Len(SampleTargets(r))
            /\ RaisedPlayerCalls(r)
                 = Cardinality(errors) + (Len(SampleTargets(r)) - Len(samples))

\* six key players and three players a side, every call raising: five error
\* entries and no sample player
C28_Witness ==
  \E r \in RunIds :
    /\ PlayersEnriched(r)
    /\ Len(PyGet(run[r].player_info, "key_players", EmptyList).l) > MaxKeyPlayers
    /\ Len(run[r].enhanced_player_data.d.enhanced_key_players.l) = MaxKeyPlayers
    /\ \A i \in 1..MaxKeyPlayers :
         Sentinel(run[r].enhanced_player_data.d.enhanced_key_players.l[i].d.detailed_data)
    /\ Len(SampleTargets(r)) = 2 * MaxSamplePlayers
    /\ run[r].enhanced_player_data.d.sample_players_detailed = EmptyList
    /\ RaisedPlayerCalls(r) = MaxPlayerCalls

IdentificationKeys == {"game_id", "article_type", "storylines", "generated_at"}

\* C18 as stated: the metadata map of every result of generate_game_recap, of a
\* success and of a failure, contains game_id, article_type, storylines and
\* generated_at.
C18_MetadataCarriesIdentification ==
  \A r \in RunIds :
    Finished(r) =>
      /\ IsDict(run[r].result)
      /\ IdentificationKeys \subseteq DOMAIN run[r].result.d.metadata.d

\* C18: every result of generate_game_recap names its game at the top level and
\* has generated_at in its metadata map; a successful result also has
\* article_type and storylines at the top level.
C18_ResultCarriesIdentification ==
  \A r \in RunIds :
    Finished(r) =>
      /\ IsDict(run[r].result)
      /\ PyGet(run[r].result, "game_id", None) = Str(run[r].game_id)
      /\ "generated_at" \in DOMAIN run[r].result.d.metadata.d
      /\ run[r].result.d.success = Bool(TRUE) =>
           {"article_type", "storylines"} \subseteq DOMAIN run[r].result.d

\* a successful result whose storylines are at the top level and whose metadata
\* map has the timestamp only of the four
C18_Witness ==
  \E r \in RunIds :
    /\ Returned(r)
    /\ run[r].result.d.success = Bool(TRUE)
    /\ run[r].result.d.article_type = Str("game_recap")
    /\ Len(run[r].result.d.storylines.l) > 0
    /\ DOMAIN run[r].result.d.metadata.d \cap IdentificationKeys = {"generated_at"}

----------------------------------------------------------------------------
(* The extraction specification: extract_team_info and extract_player_info *)
(* called, in any order and repeatedly, on one game record.                *)

MaxEvents == 2
MaxCalls == 3

\* all sequences over S of length at most n
SeqsUpTo(S, n) == UNION {[1..k -> S] : k \in 0..n}

EventPool ==
  {EventRec("Goal", "Normal Goal", 10, "Ten"), EventRec("Card", "Yellow Card", 20, "Twenty"),
   EventRec("subst", "Substitution 1", 11, "Eleven"), EventRec("Goal", "Own Goal", 99, "Ghost"),
   Str("not an event"),
   Dict([type |-> Str("Goal"), player |-> Dict([id |-> List(<<Num(10)>>), name |-> Str("Ten")])]),
   Dict([type |-> Str("Card"), detail |-> Str("Red Card"), time |-> Dict([elapsed |-> Num(88)]),
         player |-> Dict([id |-> Num(10), name |-> None])])}

HomeIds == {None, Num(1)}
AwayIds == {Num(1), Num(2)}

\* the lineups value of a fixture: a list of lineups, a null, or a list with a stray element
LineupsOf(home, away) ==
  {EmptyList,
   List(<<LineupRec(TeamRec(home, "Home FC"), <<PlayerRec(10, "Ten")>>, <<PlayerRec(11, "Eleven")>>)>>),
   List(<<LineupRec(TeamRec(home, "Home FC"), <<PlayerRec(10, "Ten")>>, <<PlayerRec(11, "Eleven")>>),
          LineupRec(TeamRec(away, "Away FC"), <<PlayerRec(20, "Twenty"), PlayerRec(10, "Ten")>>, <<>>)>>),
   List(<<LineupRec(TeamRec(home, "Home FC"), <<PlayerRec(10, "Ten")>>, <<>>), Num(7)>>),
   None}

FixtureOf(home, away, lineups, events) ==
  Dict([teams |-> Dict([home |-> TeamRec(home, "Home FC"), away |-> TeamRec(away, "Away FC")]),
        league |-> League, lineups |-> lineups, events |-> List(events)])

\* records of the flat shape, well formed up to the lineups and the events
FlatRecords ==
  {Envelope("fixtures", <<>>, 1, <<FixtureOf(home, away, lineups, events)>>) :
     home \in HomeIds, away \in AwayIds, lineups \in LineupsOf(Num(1), Num(2)),
     events \in SeqsUpTo(EventPool, MaxEvents)}

\* records that are no game record at all, or whose first element is none
MalformedRecords ==
  {None, EmptyList, EmptyDict, FailedRecord, NestedRecord,
   Dict([response |-> Num(3)]), Dict([response |-> EmptyDict]),
   Dict([response |-> Dict([a |-> Num(1)])]), Dict([response |-> Str("text")]),
   Envelope("fixtures", <<>>, 1, <<Num(3)>>), Envelope("fixtures", <<>>, 1, <<EmptyDict>>),
   Envelope("fixtures", <<>>, 1, <<Dict([teams |-> None])>>),
   Envelope("fixtures", <<>>, 1, <<Dict([teams |-> Dict([home |-> Num(1)])])>>),
   Envelope("fixtures", <<>>, 1, <<Dict([events |-> Dict([a |-> Num(1)])])>>)}

\* the record of the repository's own extraction test: a flat fixture, whose
\* "fixture" entry holds the id of the game and no envelope
SampleRecord ==
  Envelope("fixtures", <<>>, 1,
           <<DictSet(FullFixture, "fixture", Dict([id |-> Num(239625)]))>>)

ExtractInputs == FlatRecords \cup MalformedRecords \cup {SampleRecord}

\* the record a caller holds after extract_team_info(raw) returned: the method
\* reads raw_game_data and builds its result from new dicts
record_after_extract_team_info(raw) == raw

\* all_players filled with the player dicts of the record itself instead of new
\* dicts: the merge loop then stores match_events into the record
record_with_match_events(raw) ==
  IF IsDict(raw) /\ IsList(PyGet(raw, "response", EmptyList))
       /\ Truthy(PyGet(raw, "response", EmptyList)) /\ IsDict(PyFirst(raw.d.response))
  THEN DictSet(raw, "response",
               List(<<DictSet(PyFirst(raw.d.response), "match_events", EmptyList)>>
                      \o Tail(raw.d.response.l)))
  ELSE raw

\* the record a caller holds after extract_player_info(raw) returned: every store of
\* the method (player_events[..] = .., ["events"].append, all_players[..] = ..,
\* player_data["match_events"] = .., player_data["key_achievement"] = ..) goes to a
\* dict or list the method built itself, none to raw_game_data or its parts
record_after_extract_player_info(raw) == raw

ExtractInit ==
  /\ PipelineInit
  /\ run = [r \in RunIds |-> IdleRun]
  /\ fetch = FetchIdle
  /\ agent = AgentIdle
  /\ svc = SvcIdle
  /\ \E raw \in ExtractInputs :
       ext = [raw |-> raw, orig |-> raw, self0 |-> self, team |-> None, player |-> None,
              team1 |-> None, player1 |-> None, simplified |-> None, calls |-> 0]

CallExtractTeamInfo ==
  /\ ext.calls < MaxCalls
  /\ \E team_info \in {extract_team_info(ext.raw)} :
       ext' = [ext EXCEPT !.team = team_info,
                          !.team1 = IF @ = None THEN team_info ELSE @,
                          !.raw = record_after_extract_team_info(@),
                          !.calls = @ + 1]
  /\ UNCHANGED <<self, run, fetch, agent, svc>>

CallExtractPlayerInfo ==
  /\ ext.calls < MaxCalls
  /\ \E player_info \in {extract_player_info(ext.raw)} :
       ext' = [ext EXCEPT !.player = player_info,
                          !.player1 = IF @ = None THEN player_info ELSE @,
                          !.raw = record_after_extract_player_info(@),
                          !.calls = @ + 1]
  /\ UNCHANGED <<self, run, fetch, agent, svc>>

\* the format manager reading the same record, as prepare_data_for_researcher
\* and prepare_data_for_writer do
CallSimplifyDataForApi ==
  /\ ext.calls < MaxCalls
  /\ ext' = [ext EXCEPT !.simplified = simplify_data_for_api(ext.raw), !.calls = @ + 1]
  /\ UNCHANGED <<self, run, fetch, agent, svc>>

ExtractNext == CallExtractTeamInfo \/ CallExtractPlayerInfo \/ CallSimplifyDataForApi

ExtractSpec == ExtractInit /\ [][ExtractNext]_vars

----------------------------------------------------------------------------
(* Properties of the extraction helpers (specification ExtractSpec)        *)

TeamInfoKeys == {"home_team", "away_team", "league", "home_lineup", "away_lineup"}

PlayerInfoKeys == {"home_players", "away_players", "all_players", "key_players"}

\* the record's response is an empty list
EmptyResponse(raw) == IsDict(raw) /\ PyGet(raw, "response", EmptyList) = EmptyList

\* C9: extract_team_info and extract_player_info return, for every input, a dict
\* whose only key is "error" or a dict with exactly the result keys, never an
\* exception; for a record whose response list is empty it is the error dict.
C9_ExtractTotal ==
  /\ ext.team # None =>
       /\ IsDict(ext.team)
       /\ DOMAIN ext.team.d = {"error"} \/ DOMAIN ext.team.d = TeamInfoKeys
       /\ EmptyResponse(ext.orig) => ext.team = NoResponseError
  /\ ext.player # None =>
       /\ IsDict(ext.player)
       /\ DOMAIN ext.player.d = {"error"} \/ DOMAIN ext.player.d = PlayerInfoKeys
       /\ EmptyResponse(ext.orig) => ext.player = NoResponseError

\* both helpers have answered a malformed record with their error dicts
C9_Witness ==
  /\ ext.orig = Envelope("fixtures", <<>>, 1, <<Num(3)>>)
  /\ ext.team = TeamInfoError(Raise("object has no attribute 'get'"))
  /\ ext.player = PlayerInfoError(Raise("object has no attribute 'get'"))

PlayersExtracted == ext.player # None /\ DOMAIN ext.player.d = PlayerInfoKeys

\* the events of the record the helpers were called on
EventsOf(raw) == PyGet(PyFirst(PyGet(raw, "response", EmptyList)), "events", EmptyList).l

\* an event of type Goal or Card
KeyEvent(e) == IsDict(e) /\ PyGet(e, "type", None) \in {Str("Goal"), Str("Card")}

EventPlayerId(e) == PyGet(PyGet(e, "player", EmptyDict), "id", None)

\* the type, detail and elapsed time of an event
Achievement(e) ==
  Dict([type |-> PyGet(e, "type", None), detail |-> PyGet(e, "detail", None),
        time |-> PyGet(PyGet(e, "time", EmptyDict), "elapsed", None)])

\* the Goal and Card events of the record whose player is in the lineups
RosterKeyEvents ==
  {i \in 1..Len(EventsOf(ext.orig)) :
     /\ KeyEvent(EventsOf(ext.orig)[i])
     /\ ODHas(ext.player.d.all_players, EventPlayerId(EventsOf(ext.orig)[i]))}

\* C11 (amended): key_players holds one entry for every Goal or Card event whose
\* player is in the lineups (all_players): its players are exactly the lineup
\* players with at least one such event, a player appearing once per event; every
\* entry is that player's all_players entry plus a key_achievement holding the
\* type, detail and elapsed time of the event it was made for.
C11_KeyPlayersAreRosterScorers ==
  PlayersExtracted =>
    LET events == EventsOf(ext.orig)
        key_players == ext.player.d.key_players.l
        all_players == ext.player.d.all_players
    IN /\ Len(key_players) = Cardinality(RosterKeyEvents)
       /\ \A i \in RosterKeyEvents :
            \E j \in 1..Len(key_players) :
              /\ key_players[j].d.id = EventPlayerId(events[i])
              /\ key_players[j].d.key_achievement = Achievement(events[i])
       /\ \A j \in 1..Len(key_players) :
            \E i \in RosterKeyEvents :
              key_players[j] = DictSet(ODGet(all_players, EventPlayerId(events[i])),
                                       "key_achievement", Achievement(events[i]))

\* a goal of a player outside the lineups beside one of a lineup player
C11_Witness ==
  /\ PlayersExtracted
  /\ Len(ext.player.d.key_players.l) = 1
  /\ ext.player.d.key_players.l[1].d.id = Num(10)
  /\ \E i \in 1..Len(EventsOf(ext.orig)) :
       EventPlayerId(EventsOf(ext.orig)[i]) = Num(99)

\* C11 as stated: the players of key_players are exactly the players with a Goal
\* or Card event in the record's events, each entry with such an event of its
\* player as key_achievement
C11_KeyPlayersAreAllScorers ==
  PlayersExtracted =>
    LET events == EventsOf(ext.orig)
        key_players == ext.player.d.key_players.l
    IN /\ {key_players[j].d.id : j \in 1..Len(key_players)}
            = {EventPlayerId(events[i]) : i \in {i \in 1..Len(events) : KeyEvent(events[i])}}
       /\ \A j \in 1..Len(key_players) :
            \E i \in 1..Len(events) :
              /\ KeyEvent(events[i])
              /\ EventPlayerId(events[i]) = key_players[j].d.id
              /\ key_players[j].d.key_achievement = Achievement(events[i])

\* the match_events entries of the events of the record selected by P, in event order
MatchEventsOf(events, P(_)) ==
  LET sel == SelectSeq(events, P) IN List([i \in 1..Len(sel) |-> event_entry(sel[i])])

\* the entries of all_players whose team_id is team_id, in all_players order
TeamPlayers(all_players, team_id) ==
  SelectSeq(all_players.items, LAMBDA it : PyGet(it.v, "team_id", None) = team_id)

RecordTeamId(raw, side) ==
  PyGet(PyGet(PyGet(PyFirst(PyGet(raw, "response", EmptyList)), "teams", EmptyDict),
              side, EmptyDict), "id", None)

\* home_players and away_players hold exactly the all_players entries of their team
TeamsPartitioned ==
  /\ ext.player.d.home_players.items
       = TeamPlayers(ext.player.d.all_players, RecordTeamId(ext.orig, "home"))
  /\ ext.player.d.away_players.items
       = TeamPlayers(ext.player.d.all_players, RecordTeamId(ext.orig, "away"))

\* C26 (amended): in the result of extract_player_info every player of
\* all_players has as match_events the entries (type, detail, time, assist) of
\* the events of the record that carry that player's id and a non-empty player
\* name, in event order, [] when there is none; home_players and away_players
\* hold exactly the all_players entries whose team_id is the home, respectively
\* away, team id.
C26_MatchEventsJoinNamedEvents ==
  PlayersExtracted =>
    /\ \A i \in 1..Len(ext.player.d.all_players.items) :
         LET it == ext.player.d.all_players.items[i]
         IN it.v.d.match_events =
              MatchEventsOf(EventsOf(ext.orig),
                            LAMBDA e : /\ EventPlayerId(e) = it.k
                                       /\ Truthy(PyGet(PyGet(e, "player", EmptyDict), "name", None)))
    /\ TeamsPartitioned

\* a lineup player with one named and one nameless event, and a player with none
C26_Witness ==
  /\ PlayersExtracted
  /\ \E i, j \in 1..Len(ext.player.d.all_players.items) :
       /\ Len(ext.player.d.all_players.items[i].v.d.match_events.l) = 1
       /\ Cardinality({n \in 1..Len(EventsOf(ext.orig)) :
                         EventPlayerId(EventsOf(ext.orig)[n])
                           = ext.player.d.all_players.items[i].k}) = 2
       /\ ext.player.d.all_players.items[j].v.d.match_events = EmptyList
  /\ Len(ext.player.d.home_players.items) > 0
  /\ Len(ext.player.d.away_players.items) > 0

\* C26 as stated: match_events holds the entries of all events of the record
\* whose player id is the player's id
C26_MatchEventsJoinById ==
  PlayersExtracted =>
    /\ \A i \in 1..Len(ext.player.d.all_players.items) :
         LET it == ext.player.d.all_players.items[i]
         IN it.v.d.match_events =
              MatchEventsOf(EventsOf(ext.orig), LAMBDA e : EventPlayerId(e) = it.k)
    /\ TeamsPartitioned

\* what each reader of the record reports about one side: the name it read, or
\* Missing when it reports none (an error map, a null, "Unknown"), or NotRead
\* when its result does not speak of the teams at all
Missing == [t |-> "missing"]
NotRead == [t |-> "notread"]

NameReadByExtract(side) ==
  IF Sentinel(ext.team) THEN Missing
  ELSE IF Truthy(PyGet(PyGet(ext.team, side, EmptyDict), "name", None))
  THEN PyGet(PyGet(ext.team, side, EmptyDict), "name", None)
  ELSE Missing

NamePassedOnBySimplify(side) ==
  IF ~PyHasKey(ext.simplified, side) THEN NotRead
  ELSE IF ext.simplified.d[side] \in {None, Str("Unknown"), Str("")} THEN Missing
  ELSE ext.simplified.d[side]

BothReadersCalled == ext.team # None /\ ext.simplified # None

\* C30: the two readers of a game record agree on its shape: the team names
\* extract_team_info reads are the names _simplify_data_for_api passes on, and
\* no record has its teams found by one reader and reported missing or
\* "Unknown" by the other.
C30_ReadersAgreeOnShape ==
  BothReadersCalled =>
    \A side \in {"home_team", "away_team"} :
      NamePassedOnBySimplify(side) # NotRead =>
        NameReadByExtract(side) = NamePassedOnBySimplify(side)

----------------------------------------------------------------------------
(* The data source: one HTTP exchange with the football API, the functions *)
(* that perform it, and the collector agent that calls them as tools.      *)

StatusCodes == {200, 404, 500}

ApiError == Dict([message |-> Str("Too many requests")])

\* the body of a response: JSON text of a record or of an error, or no JSON at all
Bodies == {JsonStr(BareRecord), JsonStr(ApiError), RawStr("<html>Bad Gateway</html>")}

\* the outcomes of conn.request / conn.getresponse / response.read
Exchanges ==
  {[conn |-> "failed", status |-> 0, body |-> None]}
    \cup {[conn |-> "ok", status |-> st, body |-> b] : st \in StatusCodes, b \in Bodies}

ConnectionError == Raise("[Errno 111] Connection refused")

StatusError(x) ==
  Str("API request failed with status " \o ToString(x.status) \o ": reason")

\* BaseAgent.get_fixtures (base_agent.py): key is whether RAPIDAPI_KEY is set
BaseAgent_get_fixtures(key, x) ==
  IF ~key THEN Raise("RAPIDAPI_KEY environment variable is not set")
  ELSE IF x.conn = "failed" THEN ConnectionError
  ELSE IF x.status # 200 THEN Dict([error |-> StatusError(x), status |-> Num(x.status)])
  ELSE IF IsRaise(json_loads(x.body))
  THEN Dict([error |-> Str("Failed to parse JSON response"), raw_response |-> x.body])
  ELSE json_loads(x.body)

\* a header whose value is None makes conn.request raise
HeaderError == Raise("expected string or bytes-like object")

\* the get_fixtures tool of base.py
get_fixtures(key, x) ==
  IF ~key THEN HeaderError
  ELSE IF x.conn = "failed" THEN ConnectionError
  ELSE IF x.status # 200 THEN Dict([error |-> StatusError(x)])
  ELSE IF IsRaise(json_loads(x.body))
  THEN Dict([error |-> Str("Failed to parse JSON response"), raw_response |-> x.body])
  ELSE Dict([raw_api_result |-> json_loads(x.body),
             summary |-> Str("API result fetched successfully")])

\* DataCollectorAgent.get_fixtures of base.py: the constructor has checked the key
DataCollectorAgent_get_fixtures(x) ==
  IF x.conn = "failed" THEN ConnectionError
  ELSE IF x.status # 200 THEN Dict([error |-> StatusError(x)])
  ELSE IF IsRaise(json_loads(x.body))
  THEN Dict([error |-> Str("Failed to parse JSON response"), raw_response |-> x.body])
  ELSE json_loads(x.body)

\* the tools of data_collector.py: the body as text whatever the status, or the
\* text of the exception
get_game_data(key, x) ==
  IF ~key THEN Str("Error fetching Rapid API football game data: RAPIDAPI_KEY not found.")
  ELSE IF x.conn = "failed"
  THEN Str("Error fetching Rapid API football game data: " \o ConnectionError.msg)
  ELSE x.body

get_team_data(key, x) ==
  IF ~key THEN Str("Error fetching Rapid API football team data: RAPID_API_KEY not found.")
  ELSE IF x.conn = "failed"
  THEN Str("Error fetching Rapid API football team data: " \o ConnectionError.msg)
  ELSE x.body

get_player_data(key, x) ==
  IF ~key THEN Str("Error fetching Rapid API football player data: RAPID_API_KEY not found.")
  ELSE IF x.conn = "failed"
  THEN Str("Error fetching Rapid API football player data: " \o ConnectionError.msg)
  ELSE x.body

\* the exchange did not deliver a 200 response with a JSON body
ExchangeFailed(key, x) ==
  ~key \/ x.conn = "failed" \/ x.status # 200 \/ IsRaise(json_loads(x.body))

PartialRecord == Envelope("fixtures", <<Str("events unavailable")>>, 1, <<BareFixture>>)

\* what the collector agent's run ends with: the language model writes the
\* envelope, and nothing in Runner.run or the output guardrail constrains it
CollectorFinalOutputs ==
  {JsonStr(BareRecord), JsonStr(FailedRecord), JsonStr(PartialRecord),
   Str("Error fetching Rapid API football game data"), Raise("Max turns (10) exceeded")}

MaxToolCalls == 2

FetchInit ==
  /\ PipelineInit
  /\ run = [r \in RunIds |-> IdleRun]
  /\ ext = ExtIdle
  /\ agent = AgentIdle
  /\ svc = SvcIdle
  /\ \E key \in BOOLEAN :
       fetch = [pc |-> "idle", key |-> key, op |-> "", exchange |-> None, fetches |-> <<>>,
                result |-> None]

\* one call of a fetch function op with exchange x, ending with result
Fetched(op, x, result) ==
  fetch' = [fetch EXCEPT !.pc = "returned", !.op = op, !.exchange = x, !.fetches = <<>>,
                         !.result = result]

CallBaseAgentGetFixtures ==
  /\ fetch.pc = "idle"
  /\ \E x \in Exchanges : Fetched("BaseAgent.get_fixtures", x, BaseAgent_get_fixtures(fetch.key, x))
  /\ UNCHANGED <<self, run, ext, agent, svc>>

CallGetFixturesTool ==
  /\ fetch.pc = "idle"
  /\ \E x \in Exchanges : Fetched("get_fixtures", x, get_fixtures(fetch.key, x))
  /\ UNCHANGED <<self, run, ext, agent, svc>>

\* DataCollectorAgent() of base.py raises without the key, so the method needs it
CallCollectorGetFixtures ==
  /\ fetch.pc = "idle"
  /\ fetch.key
  /\ \E x \in Exchanges :
       Fetched("DataCollectorAgent.get_fixtures", x, DataCollectorAgent_get_fixtures(x))
  /\ UNCHANGED <<self, run, ext, agent, svc>>

CallGetGameDataTool ==
  /\ fetch.pc = "idle"
  /\ \E x \in Exchanges : Fetched("get_game_data", x, get_game_data(fetch.key, x))
  /\ UNCHANGED <<self, run, ext, agent, svc>>

CallGetTeamDataTool ==
  /\ fetch.pc = "idle"
  /\ \E x \in Exchanges : Fetched("get_team_data", x, get_team_data(fetch.key, x))
  /\ UNCHANGED <<self, run, ext, agent, svc>>

CallGetPlayerDataTool ==
  /\ fetch.pc = "idle"
  /\ \E x \in Exchanges : Fetched("get_player_data", x, get_player_data(fetch.key, x))
  /\ UNCHANGED <<self, run, ext, agent, svc>>

\* DataCollectorAgent.collect_game_data / collect_team_data / collect_player_data starts
\* the agent run
CollectStart ==
  /\ fetch.pc = "idle"
  /\ \E op \in {"collect_game_data", "collect_team_data", "collect_player_data"} :
       fetch' = [fetch EXCEPT !.pc = "agent", !.op = op, !.exchange = None, !.fetches = <<>>,
                              !.result = None]
  /\ UNCHANGED <<self, run, ext, agent, svc>>

ToolOf(op) ==
  CASE op = "collect_game_data" -> "get_game_data"
    [] op = "collect_team_data" -> "get_team_data"
    [] op = "collect_player_data" -> "get_player_data"

ToolResult(tool, key, x) ==
  CASE tool = "get_game_data" -> get_game_data(key, x)
    [] tool = "get_team_data" -> get_team_data(key, x)
    [] tool = "get_player_data" -> get_player_data(key, x)

\* the agent calls its tool: one more exchange
AgentToolCall ==
  /\ fetch.pc = "agent"
  /\ Len(fetch.fetches) < MaxToolCalls
  /\ \E x \in Exchanges :
       fetch' = [fetch EXCEPT !.fetches =
                   Append(@, [failed |-> ExchangeFailed(fetch.key, x),
                              value |-> ToolResult(ToolOf(fetch.op), fetch.key, x)])]
  /\ UNCHANGED <<self, run, ext, agent, svc>>

CollectResult(op, final_output) ==
  CASE op = "collect_game_data" -> collect_game_data(final_output)
    [] op = "collect_team_data" -> collect_team_data(final_output)
    [] op = "collect_player_data" -> collect_player_data(<<Str("10"), Str("2023")>>, final_output)

\* the run ends and collect_* parses its final output
AgentFinish ==
  /\ fetch.pc = "agent"
  /\ \E final_output \in CollectorFinalOutputs :
       fetch' = [fetch EXCEPT !.pc = "returned", !.result = CollectResult(fetch.op, final_output)]
  /\ UNCHANGED <<self, run, ext, agent, svc>>

\* the caller has its value (or its exception); the next call can start
FetchDone ==
  /\ fetch.pc = "returned"
  /\ fetch' = [fetch EXCEPT !.pc = "idle", !.op = "", !.exchange = None, !.fetches = <<>>,
                            !.result = None]
  /\ UNCHANGED <<self, run, ext, agent, svc>>

FetchNext ==
  \/ CallBaseAgentGetFixtures
  \/ CallGetFixturesTool
  \/ CallCollectorGetFixtures
  \/ CallGetGameDataTool
  \/ CallGetTeamDataTool
  \/ CallGetPlayerDataTool
  \/ CollectStart
  \/ AgentToolCall
  \/ AgentFinish
  \/ FetchDone

FetchSpec == FetchInit /\ [][FetchNext]_vars

----------------------------------------------------------------------------
(* Properties of the data source and the collector (specification FetchSpec) *)

CollectOps == {"collect_game_data", "collect_team_data", "collect_player_data"}

FetchOps ==
  {"BaseAgent.get_fixtures", "get_fixtures", "DataCollectorAgent.get_fixtures",
   "get_game_data", "get_team_data", "get_player_data"}

\* a call of op has returned a value or raised
Answered(ops) == fetch.pc = "returned" /\ fetch.op \in ops

\* errors non-empty implies results == 0 and response == []
EnvelopeInvariant(v) ==
  Truthy(PyGet(v, "errors", EmptyList))
    => PyGet(v, "results", None) = Num(0) /\ PyGet(v, "response", None) = EmptyList

\* C5: every envelope collect_game_data, collect_team_data or collect_player_data
\* hands to its caller satisfies the envelope invariant.
C5_CollectedEnvelopeInvariant ==
  (Answered(CollectOps) /\ IsDict(fetch.result)) => EnvelopeInvariant(fetch.result)

\* every fetch the agent made for this collection failed, and it made one at least
AllFetchesFailed ==
  /\ Len(fetch.fetches) > 0
  /\ \A i \in 1..Len(fetch.fetches) : fetch.fetches[i].failed

\* C6: when every data-source fetch of a collect_game_data call failed, the
\* envelope handed to the caller has non-empty errors and results == 0.
C6_FailedCollectionReported ==
  (Answered({"collect_game_data"}) /\ AllFetchesFailed /\ IsDict(fetch.result)) =>
    /\ Truthy(PyGet(fetch.result, "errors", EmptyList))
    /\ PyGet(fetch.result, "results", None) = Num(0)

\* the value says that the fetch failed: an error entry in a dict, or the text of
\* the exception
FailureRecorded(v) ==
  \/ IsDict(v) /\ ("error" \in DOMAIN v.d \/ Truthy(PyGet(v, "errors", EmptyList)))
  \/ v.t = "str"

\* C7: BaseAgent.get_fixtures and the get_game_data / get_team_data /
\* get_player_data tools never raise, and return a value that records the failure
\* when the key is missing, the connection fails, the status is not 200 or the
\* body is no JSON.
C7_FetchNeverRaises ==
  Answered({"BaseAgent.get_fixtures", "get_game_data", "get_team_data", "get_player_data"}) =>
    /\ ~IsRaise(fetch.result)
    /\ ExchangeFailed(fetch.key, fetch.exchange) => FailureRecorded(fetch.result)

\* C8: a fetch whose HTTP status is not 200 returns an envelope with a non-empty
\* errors list and response == [].
C8_Non200IsErrorEnvelope ==
  (Answered(FetchOps) /\ fetch.key /\ fetch.exchange.conn = "ok" /\ fetch.exchange.status # 200) =>
    /\ IsDict(fetch.result)
    /\ Truthy(PyGet(fetch.result, "errors", EmptyList))
    /\ PyGet(fetch.result, "response", None) = EmptyList

----------------------------------------------------------------------------
(* Direct calls on a ResearchAgent and a WritingAgent (specification       *)
(* AgentSpec). The caller holds one data record and one storyline list,    *)
(* passes them to every call, and keeps what each call returned.           *)

MaxAgentCalls == 3

\* home and away goals of the records the calls are made on
Scores == {<<2, 1>>, <<1, 2>>, <<1, 1>>, <<0, 0>>, <<3, 2>>}

\* a game record in the shape _format_data_summary reads
GameDataRecord(home_goals, away_goals) ==
  Envelope("game_data", <<>>, 1,
           <<Dict([fixture |->
                     Envelope("fixtures", <<>>, 1,
                              <<Dict([teams |-> Dict([home |-> HomeTeam, away |-> AwayTeam]),
                                      goals |-> Dict([home |-> Num(home_goals),
                                                      away |-> Num(away_goals)]),
                                      fixture |-> Dict([date |-> Str("2025-07-08"),
                                                        venue |-> Dict([name |-> Str("Ground")])])])>>)])>>)

\* a game record whose response list is empty
EmptyGameData == Envelope("game_data", <<Str("rate limit exceeded")>>, 0, <<>>)

AgentDataInputs ==
  {GameDataRecord(s[1], s[2]) : s \in Scores} \cup {FullRecord, EmptyGameData, EmptyDict, None}

AgentStorylineInputs == {Lines(0), Lines(2), None}

ArticleTypes == {"game recap", "player spotlight"}

\* an article with the four section markers of the prompt's template
MarkedArticle ==
  Str("Headline: Home FC edge Away FC. Introduction: .. Body: .. Conclusion: ..")

\* message.content of the completion on a direct call, or the exception of the call
DirectWriterOutcomes == WriterModelOutcomes \cup {MarkedArticle}

\* the final output of the storyline agent (output_type List[str]), or the
\* exception Runner.run raised
DirectStorylineOutcomes ==
  {Lines(n) : n \in 0..MaxAgentStorylines}
    \cup {List(<<Str("storyline 1"), Str("storyline 1")>>),
          Raise("Connection error."), Raise("Max turns (10) exceeded")}

\* the final output of the game analysis agent (output_type GameAnalysis), or the
\* exception Runner.run raised
DirectAnalysisOutcomes == AnalysisAgentOutcomes \cup {Raise("Max turns (10) exceeded")}

AgentInit ==
  /\ PipelineInit
  /\ run = [r \in RunIds |-> IdleRun]
  /\ ext = ExtIdle
  /\ fetch = FetchIdle
  /\ svc = SvcIdle
  /\ \E data \in AgentDataInputs, storylines \in AgentStorylineInputs :
       agent = [pc |-> "ready", data |-> data, data0 |-> data, storylines |-> storylines,
                op |-> "", article_type |-> "", outcome |-> None, result |-> None,
                completions |-> 0, first |-> [a \in ArticleTypes |-> None],
                trace |-> <<>>, calls |-> 0]

\* await research_agent.generate_storylines([data])
DirectGenerateStorylines ==
  /\ agent.pc = "ready" /\ agent.calls < MaxAgentCalls
  /\ \E agent_outcome \in DirectStorylineOutcomes :
       agent' = [agent EXCEPT !.op = "generate_storylines", !.article_type = "",
                              !.outcome = agent_outcome,
                              !.result = generate_storylines(List(<<agent.data>>), agent_outcome),
                              !.completions = 0,
                              !.trace = Append(@, "generate_storylines"),
                              !.calls = @ + 1]
  /\ UNCHANGED <<self, run, ext, fetch, svc>>

\* await research_agent.analyze_game_data(data)
DirectAnalyzeGameData ==
  /\ agent.pc = "ready" /\ agent.calls < MaxAgentCalls
  /\ \E agent_outcome \in DirectAnalysisOutcomes :
       agent' = [agent EXCEPT !.op = "analyze_game_data", !.article_type = "",
                              !.outcome = agent_outcome,
                              !.result = analyze_game_data(agent.data, agent_outcome),
                              !.completions = 0,
                              !.trace = Append(@, "analyze_game_data"),
                              !.calls = @ + 1]
  /\ UNCHANGED <<self, run, ext, fetch, svc>>

\* await writer.generate_game_recap(data, {}, storylines): the completion is
\* requested once the prompt is built
DirectGenerateGameRecap ==
  /\ agent.pc = "ready" /\ agent.calls < MaxAgentCalls
  /\ \E model_outcome \in DirectWriterOutcomes :
       agent' = [agent EXCEPT !.op = "generate_game_recap", !.article_type = "game recap",
                              !.outcome = model_outcome,
                              !.result = writer_generate_game_recap(agent.data, EmptyDict,
                                                                    agent.storylines, model_outcome),
                              !.completions =
                                 IF IsRaise(create_prompt("game recap", agent.data, EmptyDict,
                                                          agent.storylines))
                                 THEN 0 ELSE 1,
                              !.data = data_after_format_data_summary(@),
                              !.trace = Append(@, "generate_game_recap"),
                              !.calls = @ + 1]
  /\ UNCHANGED <<self, run, ext, fetch, svc>>

\* writer._generate_fallback_article(article_type, data, storylines)
DirectGenerateFallbackArticle ==
  /\ agent.pc = "ready" /\ agent.calls < MaxAgentCalls
  /\ \E article_type \in ArticleTypes :
       \E article \in {generate_fallback_article(article_type, agent.data, agent.storylines)} :
         agent' = [agent EXCEPT !.op = "generate_fallback_article",
                                !.article_type = article_type,
                                !.outcome = None,
                                !.result = article,
                                !.completions = 0,
                                !.first = [@ EXCEPT ![article_type] =
                                             IF @ = None THEN article ELSE @],
                                !.data = data_after_format_data_summary(@),
                                !.trace = Append(@, "generate_fallback_article"),
                                !.calls = @ + 1]
  /\ UNCHANGED <<self, run, ext, fetch, svc>>

AgentNext ==
  \/ DirectGenerateStorylines
  \/ DirectAnalyzeGameData
  \/ DirectGenerateGameRecap
  \/ DirectGenerateFallbackArticle

AgentSpec == AgentInit /\ [][AgentNext]_vars

----------------------------------------------------------------------------
(* Properties of the direct agent calls (specification AgentSpec)          *)

ResearchOps == {"generate_storylines", "analyze_game_data"}

\* the filler of a research method
FillerOf(op) == IF op = "generate_storylines" THEN FillerStorylines ELSE FillerGameAnalysis

\* C12: generate_storylines and analyze_game_data never raise; when the delegated
\* agent call raised, whatever the exception and whatever the input, the call
\* returns the method's fixed filler.
C12_ResearchFailureGivesFiller ==
  agent.op \in ResearchOps =>
    /\ ~IsRaise(agent.result)
    /\ IsRaise(agent.outcome) => agent.result = FillerOf(agent.op)

\* analyze_game_data answered a failed agent call on a played game with the filler
C12_Witness ==
  /\ agent.op = "analyze_game_data"
  /\ agent.data = GameDataRecord(2, 1)
  /\ agent.outcome = Raise("Max turns (10) exceeded")
  /\ agent.result = FillerGameAnalysis

\* s is t cut after some element
IsPrefix(s, t) == Len(s) <= Len(t) /\ \A i \in 1..Len(s) : s[i] = t[i]

\* C13: the list generate_storylines returns has at most 5 elements and, when the
\* storyline agent produced a list, is a prefix of that list.
C13_StorylinesArePrefixOfAtMostFive ==
  agent.op = "generate_storylines" =>
    /\ agent.result.t = "list"
    /\ Len(agent.result.l) <= 5
    /\ ~IsRaise(agent.outcome) => IsPrefix(agent.result.l, agent.outcome.l)

\* the agent produced more than five storylines and the first five came back
C13_Witness ==
  /\ agent.op = "generate_storylines"
  /\ agent.outcome = Lines(MaxAgentStorylines)
  /\ Len(agent.outcome.l) > 5
  /\ agent.result = Lines(5)

\* the completion of a generate_game_recap call failed: the call raised, or its
\* content has no strip
GenerationFailed(outcome) == IsRaise(outcome) \/ IsRaise(PyStrip(outcome))

IsFallbackArticle(v) == v.t = "fstr" /\ v.tpl = "fallback"

\* C14: generate_game_recap never propagates an exception: for every game_data
\* and storylines, when producing the article fails the call returns the fallback
\* article, and no call returns an exception.
C14_RecapNeverRaises ==
  agent.op = "generate_game_recap" =>
    /\ ~IsRaise(agent.result)
    /\ GenerationFailed(agent.outcome) => IsFallbackArticle(agent.result)

HasSectionMarker(v) == v = MarkedArticle

\* C16: an article the model generated that has none of the section markers is
\* never returned by generate_game_recap.
C16_UnmarkedArticleNeverReturned ==
  (/\ agent.op = "generate_game_recap"
   /\ ~IsRaise(agent.result)
   /\ ~IsFallbackArticle(agent.result)) => HasSectionMarker(agent.result)

\* the home and away goals of a record in the writer's shape, <<>> if it has none
ScoreOf(data) ==
  IF \E s \in Scores : data = GameDataRecord(s[1], s[2])
  THEN CHOOSE s \in Scores : data = GameDataRecord(s[1], s[2])
  ELSE <<>>

\* the storylines the score templates give for Home FC against Away FC
ScoreStorylines(s) ==
  (IF s[1] > s[2] THEN {Str("Home FC secures victory over Away FC")} ELSE {})
    \cup (IF s[2] > s[1] THEN {Str("Away FC secures victory over Home FC")} ELSE {})
    \cup (IF s[1] = s[2] THEN {Str("Home FC and Away FC share the points in a draw")} ELSE {})
    \cup (IF s[1] + s[2] = 0 THEN {Str("A goalless encounter")} ELSE {})
    \cup (IF s[1] + s[2] >= 5 THEN {Str("A high-scoring thriller")} ELSE {})

\* C17: the storylines analyze_game_data returns are the ones the score templates
\* give: the winner's "secures victory over" line, the draw line, the goalless
\* line when no goal was scored, the high-scoring line from five goals on.
C17_AnalysisIsFunctionOfScore ==
  (agent.op = "analyze_game_data" /\ ScoreOf(agent.data) # <<>>) =>
    /\ agent.result.t = "model"
    /\ {agent.result.d.storylines.l[i] : i \in DOMAIN agent.result.d.storylines.l}
         = ScoreStorylines(ScoreOf(agent.data))

----------------------------------------------------------------------------
(* The HTTP service (main.py): the lifespan of the module-level            *)
(* orchestrator, POST /generate-article, and the stub agents of agents/    *)
(* that AgentOrchestrator chains (specification ServiceSpec).              *)

MaxRequests == 2

\* raise HTTPException(status_code=status, detail=detail)
HTTPException(status, detail) ==
  [t |-> "raise", msg |-> ToString(status) \o ": " \o detail, status |-> status,
   detail |-> detail]

\* the response the framework makes of an HTTPException, or of a request it
\* rejected itself
ErrorResponse(status, detail) == [status |-> status, detail |-> detail, body |-> None]

\* the response made of the ArticleResponse the endpoint returned
OkResponse(body) == [status |-> 200, detail |-> None, body |-> body]

RequestKeys == {"game_id", "article_type", "target_length", "tone"}

\* a request body that sets every field of ArticleRequest
FullBody(game_id) ==
  [game_id |-> Str(game_id), article_type |-> Str("game_preview"),
   target_length |-> Num(400), tone |-> Str("casual")]

\* JSON bodies posted to /generate-article: any subset of the fields, the game id
\* empty or not
RequestBodies ==
  {Dict([k \in keys |-> FullBody(game_id)[k]]) :
     game_id \in {""} \cup GameIds, keys \in SUBSET RequestKeys}

\* ArticleRequest: game_id is required, the other fields have defaults
ArticleRequest(body) ==
  IF ~IsDict(body) \/ "game_id" \notin DOMAIN body.d \/ body.d.game_id.t # "str"
  THEN Raise("Field required: game_id")
  ELSE Model("ArticleRequest",
             [game_id |-> body.d.game_id,
              article_type |-> PyGet(body, "article_type", Str("game_recap")),
              target_length |-> PyGet(body, "target_length", Num(800)),
              priority |-> Str("normal"),
              tone |-> PyGet(body, "tone", Str("professional"))])

\* agents/researcher.py: ResearchAgent.research_team_history, a stub
research_team_history(team_id, opponent_id) == EmptyDict

\* agents/writer.py: WritingAgent.generate_game_recap, a stub
stub_generate_game_recap(game_data, research_data) == Str("")

\* an editor that rewrites the article and scores it
review_article_rewriting(article_content, metadata) ==
  <<Str("Edited."), Dict([score |-> Num(1)])>>

\* agents/editor.py: EditorAgent.review_article returns (article_content, {})
review_article(article_content, metadata) == <<article_content, EmptyDict>>

\* AgentOrchestrator._research_background
research_background(game_data) ==
  LET home_team == PyGet(game_data, "home_team", Str(""))
      away_team == PyGet(game_data, "away_team", Str(""))
  IN IF IsRaise(home_team) THEN home_team ELSE research_team_history(home_team, away_team)

\* AgentOrchestrator._generate_content
generate_content(game_data, research_data, request) ==
  Dict([content |-> stub_generate_game_recap(game_data, research_data),
        metadata |-> Dict([tone |-> request.d.tone,
                           target_length |-> request.d.target_length,
                           article_type |-> request.d.article_type])])

\* AgentOrchestrator._edit_content
edit_content(content) ==
  LET article_content == PyGet(content, "content", Str(""))
      metadata == PyGet(content, "metadata", EmptyDict)
      reviewed == review_article(article_content, metadata)
  IN Dict([content |-> reviewed[1],
           metadata |-> DictSet(metadata, "review_feedback", reviewed[2])])

\* DataCollectorAgent.collect_game_data of agents/data_collector.py, which the
\* orchestrator awaits: the game's record, or an exception
legacy_collect_game_data(game_id, collector_outcome) == collector_outcome

\* what collect_game_data ends with for a game
LegacyCollectorOutcomes ==
  {Dict([home_team |-> Str("Home FC"), away_team |-> Str("Away FC")]), FullRecord, EmptyDict,
   Str("Error retrieving game data: timed out"), Raise("Connection error.")}

\* constructing the four agents: done, or the exception of a constructor
AgentsOutcomes == {None, Raise("The api_key client option must be set")}

ArticleIds == {"uuid-1", "uuid-2"}

\* an except block that answers 500 without the exception's message
GenerationErrorPlain(e) == HTTPException(500, "Failed to generate article")

\* the except block of AgentOrchestrator.generate_article
GenerationError(e) == HTTPException(500, "Failed to generate article: " \o e.msg)

\* the calls made on agents, the writer's and the editor's output
Staged(result, invoked, written, reviewed) ==
  [result |-> result, invoked |-> invoked, written |-> written, reviewed |-> reviewed]

\* AgentOrchestrator.generate_article: the ArticleResponse returned or the
\* HTTPException raised, with the calls made on agents
AgentOrchestrator_generate_article(request, agents_outcome, collector_outcome, article_id) ==
  IF ~Truthy(request.d.game_id)
  THEN Staged(GenerationError(HTTPException(400, "Game ID is required")), <<>>, None, None)
  ELSE IF IsRaise(agents_outcome) THEN Staged(GenerationError(agents_outcome), <<>>, None, None)
  ELSE
    LET game_data == legacy_collect_game_data(request.d.game_id.s, collector_outcome)
        research_data == research_background(game_data)
        content == generate_content(game_data, research_data, request)
        final_article == edit_content(content)
    IN IF IsRaise(game_data)
       THEN Staged(GenerationError(game_data), <<"collect_game_data">>, None, None)
       ELSE IF IsRaise(research_data)
       THEN Staged(GenerationError(research_data), <<"collect_game_data">>, None, None)
       ELSE Staged(Model("ArticleResponse",
                         [article_id |-> Str(article_id), status |-> Str("completed"),
                          content |-> PyGet(final_article, "content", Str("")),
                          metadata |-> PyGet(final_article, "metadata", EmptyDict)]),
                   <<"collect_game_data", "research_team_history", "generate_game_recap",
                     "review_article">>,
                   content,
                   review_article(content.d.content, content.d.metadata))

\* an endpoint without the readiness test: an unset orchestrator has no
\* generate_article, and the framework answers the AttributeError with 500
generate_article_unguarded(body, orchestrator, agents_outcome, collector_outcome, article_id) ==
  IF IsRaise(ArticleRequest(body))
  THEN Staged(HTTPException(422, ArticleRequest(body).msg), <<>>, None, None)
  ELSE IF ~orchestrator
  THEN Staged(HTTPException(500, "Internal Server Error"), <<>>, None, None)
  ELSE AgentOrchestrator_generate_article(ArticleRequest(body), agents_outcome,
                                          collector_outcome, article_id)

\* POST /generate-article: the request model is validated before the endpoint runs
generate_article(body, orchestrator, agents_outcome, collector_outcome, article_id) ==
  IF IsRaise(ArticleRequest(body))
  THEN Staged(HTTPException(422, ArticleRequest(body).msg), <<>>, None, None)
  ELSE IF ~orchestrator
  THEN Staged(HTTPException(503, "Service not ready"), <<>>, None, None)
  ELSE AgentOrchestrator_generate_article(ArticleRequest(body), agents_outcome,
                                          collector_outcome, article_id)

\* the HTTP response of an endpoint's outcome
ResponseOf(result) ==
  IF IsRaise(result) THEN ErrorResponse(result.status, result.detail) ELSE OkResponse(result)

\* GET /health
health_check ==
  Model("HealthResponse",
        [status |-> Str("healthy"), version |-> Str("1.0.0"), environment |-> Str("development"),
         agents_status |-> Dict([data_collector |-> Str("ready"), researcher |-> Str("ready"),
                                 writer |-> Str("ready"), editor |-> Str("ready")])])

\* the module is imported: orchestrator = None, the lifespan has not started
ServiceInit ==
  /\ PipelineInit
  /\ run = [r \in RunIds |-> IdleRun]
  /\ ext = ExtIdle
  /\ fetch = FetchIdle
  /\ agent = AgentIdle
  /\ svc = SvcIdle

\* lifespan, up to its yield: orchestrator = AgentOrchestrator(), or the
\* constructor's exception re-raised and the application not started
Startup ==
  /\ svc.pc = "down"
  /\ \E agents_outcome \in AgentsOutcomes :
       svc' = IF IsRaise(agents_outcome)
              THEN [svc EXCEPT !.pc = "failed"]
              ELSE [svc EXCEPT !.pc = "up", !.orchestrator = TRUE]
  /\ UNCHANGED <<self, run, ext, fetch, agent>>

\* lifespan, after its yield: orchestrator = None
Shutdown ==
  /\ svc.pc = "up"
  /\ svc' = [svc EXCEPT !.pc = "stopped", !.orchestrator = FALSE]
  /\ UNCHANGED <<self, run, ext, fetch, agent>>

\* one POST /generate-article, from the body to the response
PostGenerateArticle ==
  /\ svc.requests < MaxRequests
  /\ \E body \in RequestBodies, agents_outcome \in AgentsOutcomes,
        collector_outcome \in LegacyCollectorOutcomes, article_id \in ArticleIds :
       \E staged \in {generate_article(body, svc.orchestrator, agents_outcome,
                                       collector_outcome, article_id)} :
         svc' = [svc EXCEPT !.endpoint = "/generate-article", !.body = body,
                            !.agents_outcome = agents_outcome,
                            !.collector_outcome = collector_outcome,
                            !.ready = svc.orchestrator,
                            !.response = ResponseOf(staged.result),
                            !.invoked = staged.invoked, !.written = staged.written,
                            !.reviewed = staged.reviewed, !.requests = @ + 1]
  /\ UNCHANGED <<self, run, ext, fetch, agent>>

\* one GET /health
GetHealth ==
  /\ svc.requests < MaxRequests
  /\ svc' = [svc EXCEPT !.endpoint = "/health", !.body = None, !.agents_outcome = None,
                        !.collector_outcome = None, !.ready = svc.orchestrator,
                        !.response = OkResponse(health_check),
                        !.invoked = <<>>, !.written = None, !.reviewed = None,
                        !.requests = @ + 1]
  /\ UNCHANGED <<self, run, ext, fetch, agent>>

\* articles handed to the editor directly
ReviewInputs == {Str(""), MarkedArticle, Str("Home FC beat Away FC.")}

\* await editor.review_article(article_content, metadata) on an EditorAgent
DirectReviewArticle ==
  /\ svc.requests < MaxRequests
  /\ \E article_content \in ReviewInputs,
        metadata \in {EmptyDict, Dict([tone |-> Str("casual")])} :
       svc' = [svc EXCEPT !.endpoint = "review_article", !.body = None,
                          !.agents_outcome = None, !.collector_outcome = None,
                          !.ready = svc.orchestrator, !.response = None,
                          !.invoked = <<"review_article">>,
                          !.written = Dict([content |-> article_content, metadata |-> metadata]),
                          !.reviewed = review_article(article_content, metadata),
                          !.requests = @ + 1]
  /\ UNCHANGED <<self, run, ext, fetch, agent>>

ServiceNext == Startup \/ Shutdown \/ PostGenerateArticle \/ GetHealth \/ DirectReviewArticle

ServiceSpec == ServiceInit /\ [][ServiceNext]_vars

----------------------------------------------------------------------------
(* Properties of the service (specification ServiceSpec)                   *)

\* the last request was a POST /generate-article
Posted == svc.endpoint = "/generate-article"

\* C19: review_article returns the content it was given and an empty feedback
\* map; the response of a completed generate-article request has the writer's
\* output as content and the writer stage's metadata plus review_feedback == {}
\* as metadata.
C19_EditorIsIdentity ==
  /\ svc.reviewed # None =>
       /\ svc.reviewed[1] = svc.written.d.content
       /\ svc.reviewed[2] = EmptyDict
  /\ (Posted /\ svc.response.status = 200) =>
       /\ svc.response.body.d.content = svc.written.d.content
       /\ svc.response.body.d.metadata =
            DictSet(svc.written.d.metadata, "review_feedback", EmptyDict)
       /\ svc.written.d.metadata =
            Dict([tone |-> ArticleRequest(svc.body).d.tone,
                  target_length |-> ArticleRequest(svc.body).d.target_length,
                  article_type |-> ArticleRequest(svc.body).d.article_type])

\* a completed request: the four agents were called in order and the response
\* carries the request's tone, length and type with an empty review_feedback
C19_Witness ==
  /\ Posted
  /\ svc.response.status = 200
  /\ svc.invoked = <<"collect_game_data", "research_team_history", "generate_game_recap",
                     "review_article">>
  /\ svc.body = Dict(FullBody("239625"))
  /\ svc.response.body.d.metadata =
       Dict([tone |-> Str("casual"), target_length |-> Num(400),
             article_type |-> Str("game_preview"), review_feedback |-> EmptyDict])

\* the posted body has no game_id, or an empty one
NoGameId(body) == "game_id" \notin DOMAIN body.d \/ body.d.game_id = Str("")

\* C20: a generate-article request with a missing or empty game_id, posted to a
\* service whose orchestrator is set, is answered with HTTP 400 and no agent is
\* invoked.
C20_MissingGameIdIs400 ==
  (Posted /\ svc.ready /\ NoGameId(svc.body)) =>
    /\ svc.response.status = 400
    /\ svc.invoked = <<>>

\* the posted body is a valid ArticleRequest: the endpoint function runs
Accepted == Posted /\ ~IsRaise(ArticleRequest(svc.body))

StageOrder == <<"collect_game_data", "research_team_history", "generate_game_recap",
                "review_article">>

\* the request reached the orchestrator with a game id
Staging == Accepted /\ svc.ready /\ Truthy(ArticleRequest(svc.body).d.game_id)

\* the exception a constructor or a stage raised, None if none did
StageFailure ==
  IF IsRaise(svc.agents_outcome) THEN svc.agents_outcome
  ELSE IF IsRaise(svc.collector_outcome) THEN svc.collector_outcome
  ELSE IF IsRaise(research_background(svc.collector_outcome))
  THEN research_background(svc.collector_outcome)
  ELSE None

\* C22: in AgentOrchestrator.generate_article a failure of a stage is answered
\* with status 500 whose detail carries the failure's message; the answer is 200
\* with status "completed" only if all four stages returned, and the stages are
\* called in the order collect, research, write, edit.
C22_StageFailureIs500 ==
  Staging =>
    /\ IsPrefix(svc.invoked, StageOrder)
    /\ StageFailure # None =>
         svc.response = ErrorResponse(500, "Failed to generate article: " \o StageFailure.msg)
    /\ svc.response.status = 200 =>
         /\ StageFailure = None
         /\ svc.invoked = StageOrder
         /\ svc.response.body.d.status = Str("completed")

\* the research stage failed on a collector answer that is not a record: 500 with
\* the message, and neither writer nor editor was called
C22_Witness ==
  /\ Staging
  /\ svc.collector_outcome = Str("Error retrieving game data: timed out")
  /\ svc.invoked = <<"collect_game_data">>
  /\ svc.response =
       ErrorResponse(500, "Failed to generate article: object has no attribute 'get'")

----------------------------------------------------------------------------
(* Two runs of generate_game_recap on one AgentPipeline instance, their     *)
(* steps interleaved at the awaits (specification ConcSpec). The failures   *)
(* followed are those of the collection, of the player enrichment and of    *)
(* the writer formatting; the second run is for one game.                   *)

ConcRunIds == {1, 2}

\* the stages a run of ConcSpec may fail at
ConcFailures == {"collect_game_data", "collect_player_data", "prepare_data_for_writer"}

\* the step taken leaves run r within the failures and games followed
Narrowed(r) ==
  /\ run'[r].failed \subseteq ConcFailures
  /\ r = 2 => run'[r].game_id \in {"", "239625"}
  /\ run'[r].raw_game_data # CrowdedRecord

\* one AgentPipeline constructed with OPENAI_MODEL=gpt-4o, kept as constructed in
\* ext.self0; no run started
ConcInit ==
  /\ PipelineInit
  /\ self.model = "gpt-4o"
  /\ run = [r \in ConcRunIds |-> IdleRun]
  /\ ext = [ExtIdle EXCEPT !.self0 = self]
  /\ fetch = FetchIdle
  /\ agent = AgentIdle
  /\ svc = SvcIdle

ConcNext ==
  \E r \in ConcRunIds :
    \/ StartRun(r) /\ Narrowed(r)
    \/ CollectCall(r) /\ Narrowed(r)
    \/ CollectReturn(r) /\ Narrowed(r)
    \/ Extract(r) /\ Narrowed(r)
    \/ EnrichTeamHome(r) /\ Narrowed(r)
    \/ EnrichTeamHomeReturn(r) /\ Narrowed(r)
    \/ EnrichTeamAway(r) /\ Narrowed(r)
    \/ EnrichTeamAwayReturn(r) /\ Narrowed(r)
    \/ EnrichPlayersStart(r) /\ Narrowed(r)
    \/ EnrichKeyPlayer(r) /\ Narrowed(r)
    \/ EnrichSamplesStart(r) /\ Narrowed(r)
    \/ EnrichSamplePlayer(r) /\ Narrowed(r)
    \/ EnrichPlayersDone(r) /\ Narrowed(r)
    \/ FormatResearchCall(r) /\ Narrowed(r)
    \/ FormatResearchReturn(r) /\ Narrowed(r)
    \/ AnalyzeCall(r) /\ Narrowed(r)
    \/ AnalyzeReturn(r) /\ Narrowed(r)
    \/ HistoryCall(r) /\ Narrowed(r)
    \/ HistoryReturn(r) /\ Narrowed(r)
    \/ PerformanceCall(r) /\ Narrowed(r)
    \/ PerformanceReturn(r) /\ Narrowed(r)
    \/ StorylinesCall(r) /\ Narrowed(r)
    \/ StorylinesReturn(r) /\ Narrowed(r)
    \/ FormatWriterCall(r) /\ Narrowed(r)
    \/ FormatWriterReturn(r) /\ Narrowed(r)
    \/ WriterCall(r) /\ Narrowed(r)
    \/ WriterReturn(r) /\ Narrowed(r)
    \/ Respond(r) /\ Narrowed(r)
    \/ RespondFailure(r) /\ Narrowed(r)

ConcSpec == ConcInit /\ [][ConcNext]_vars

\* the result a run gives from its own record on the instance as constructed
AloneResult(rec, instance) ==
  IF IsRaise(rec.exc) THEN failure_result(rec, instance.model, rec.exc)
  ELSE success_result(rec, instance.model)

\* C23: no step of a run writes a field of the AgentPipeline instance, and for
\* every interleaving of two runs on the instance each finished run's result is
\* the one its own game id and its own collaborator responses give on the
\* instance as constructed.
C23_RunsShareNoState ==
  /\ self = ext.self0
  /\ \A r \in ConcRunIds :
       Finished(r) =>
         /\ run[r].result = AloneResult(run[r], ext.self0)
         /\ PyGet(run[r].result, "game_id", None) = Str(run[r].game_id)
         /\ run[r].result.d.metadata.d.model_used = Str(ext.self0.model)

\* both runs finished, for different games, one with an article and one with
\* the failure of its collection
C23_Witness ==
  /\ Returned(1) /\ run[1].result.d.success = Bool(TRUE)
  /\ run[1].game_id = "1208021"
  /\ Caught(2) /\ run[2].result.d.success = Bool(FALSE)
  /\ run[2].game_id = "239625"
  /\ "collect_game_data" \in run[2].failed


----------------------------------------------------------------------------
(* Termination of a run.  The event loop resumes the coroutine of a run     *)
(* whenever it can take a step, and every awaited collaborator call comes  *)
(* back, with a value or an exception: every step of a started run is      *)
(* weakly fair.  Starting a run is the caller's choice and is not.         *)

\* the runs of one pipeline for one game: termination does not depend on the
\* model name or the game id, which no guard reads
LiveInit == Init /\ self.model = "gpt-4o"

OneGame(r) == run'[r].game_id \in {"", "239625"}

LiveNext ==
  \E r \in RunIds :
    \/ StartRun(r) /\ OneGame(r)
    \/ CollectCall(r) /\ OneGame(r)
    \/ CollectReturn(r) /\ OneGame(r)
    \/ Extract(r) /\ OneGame(r)
    \/ EnrichTeamHome(r) /\ OneGame(r)
    \/ EnrichTeamHomeReturn(r) /\ OneGame(r)
    \/ EnrichTeamAway(r) /\ OneGame(r)
    \/ EnrichTeamAwayReturn(r) /\ OneGame(r)
    \/ EnrichPlayersStart(r) /\ OneGame(r)
    \/ EnrichKeyPlayer(r) /\ OneGame(r)
    \/ EnrichSamplesStart(r) /\ OneGame(r)
    \/ EnrichSamplePlayer(r) /\ OneGame(r)
    \/ EnrichPlayersDone(r) /\ OneGame(r)
    \/ FormatResearchCall(r) /\ OneGame(r)
    \/ FormatResearchReturn(r) /\ OneGame(r)
    \/ AnalyzeCall(r) /\ OneGame(r)
    \/ AnalyzeReturn(r) /\ OneGame(r)
    \/ HistoryCall(r) /\ OneGame(r)
    \/ HistoryReturn(r) /\ OneGame(r)
    \/ PerformanceCall(r) /\ OneGame(r)
    \/ PerformanceReturn(r) /\ OneGame(r)
    \/ StorylinesCall(r) /\ OneGame(r)
    \/ StorylinesReturn(r) /\ OneGame(r)
    \/ FormatWriterCall(r) /\ OneGame(r)
    \/ FormatWriterReturn(r) /\ OneGame(r)
    \/ WriterCall(r) /\ OneGame(r)
    \/ WriterReturn(r) /\ OneGame(r)
    \/ Respond(r) /\ OneGame(r)
    \/ RespondFailure(r) /\ OneGame(r)

RunStep(r) == LiveNext /\ run[r].pc # "idle" /\ run'[r] # run[r]

LiveSpec == LiveInit /\ [][LiveNext]_vars /\ \A r \in RunIds : WF_vars(RunStep(r))

\* the collaborator calls generate_game_recap makes once, outside any loop
StageSites ==
  {"collect_game_data", "collect_team_data:home", "collect_team_data:away",
   "prepare_data_for_researcher", "analyze_game_data", "get_history_from_team_data",
   "get_performance_from_player_game_data", "generate_storylines",
   "prepare_data_for_writer", "generate_game_recap"}

\* no call of run r is made a second time: each stage is called at most once,
\* and collect_player_data at most once per player of the three loops
NoRetry(r) ==
  /\ \A site \in StageSites : CallCount(r, site) <= 1
  /\ \A site \in run[r].failed \cap StageSites : site \notin run[r].pending
  /\ CallCount(r, "collect_player_data") > 0 =>
       CallCount(r, "collect_player_data") <= Len(KeyTargets(r)) + Len(SampleTargets(r))

\* C29: when every collaborator call eventually returns or raises, every
\* started generate_game_recap run eventually returns a result; and no stage
\* is attempted again, after a failure or otherwise: every collaborator stage
\* is called at most once per run, collect_player_data once per player.
C29_RunsTerminateWithoutRetry ==
  /\ [](\A r \in RunIds : NoRetry(r))
  /\ \A r \in RunIds : (run[r].pc # "idle") ~> (Finished(r) /\ run[r].result # None)

\* a run that returned a result after its research stage had failed once
C29_Witness ==
  \E r \in RunIds :
    /\ Finished(r) /\ run[r].result # None
    /\ "analyze_game_data" \in run[r].failed
    /\ CallCount(r, "analyze_game_data") = 1
    /\ RaisedPlayerCalls(r) > 0

====
